---- MODULE Spec2Model ----
(***************************************************************************)
(* Verification model of the Gold-Silver-Ratio backend:                    *)
(*   - run_backtest (backend/app/services/backtest.py): the replay loop    *)
(*     over the stored GSR series, with its trade log and equity curve;    *)
(*   - generate_current_signals, calculate_signal_strength and             *)
(*     calculate_position_size (backend/app/services/signals.py);          *)
(*   - compute_all_metrics with compute_gsr, compute_gsr_rolling_stats and *)
(*     compute_correlations (backend/app/services/metrics.py);             *)
(*   - optimize_parameters (backend/app/services/backtest.py);             *)
(*   - start_scheduler and its cron triggers                               *)
(*     (backend/app/ingestion/scheduler.py);                               *)
(*   - check_alerts, check_and_trigger_alert (services/alerts.py) and      *)
(*     dismiss_alert (api/alerts.py).                                      *)
(*                                                                         *)
(* Numbers.  The program computes in IEEE doubles.  Balances, prices and   *)
(* costs are modelled as exact rationals <<n, d>> (d > 0, lowest terms),   *)
(* so a statement proved here is a statement about the arithmetic the code *)
(* writes down, before rounding.  Prices are positive in every modelled    *)
(* row (a row whose extra data lacks a price would read 0 and divide by    *)
(* zero into inf/nan; such rows are outside the modelled inputs).          *)
(* Signal inputs (gsr, z_score, percentile) and position sizes are held in *)
(* tenths (88.2 is 882, 12.5 is 125).  An optional value is None (<<>>) or *)
(* Some(x) (<<x>>); nan and inf are the fractions <<0, 0>> and <<1, 0>>.   *)
(***************************************************************************)
EXTENDS Integers, Sequences, FiniteSets, TLC

VARIABLES
    \* ---- run_backtest ----
    metric_values,   \* rows of the GSR metric in the database (a set of rows)
    gsr_metric,      \* TRUE iff the DerivedMetric named "GSR" exists
    config,          \* the BacktestConfig passed to run_backtest
    pc,              \* position of run_backtest: "start", "loop", "done", "error"
    gsr_values,      \* the fetched rows, ordered by timestamp
    i,               \* index into gsr_values of the next bar of the for loop
    gold_oz,
    silver_oz,
    last_action,     \* "None", "gold_to_silver", "silver_to_gold"
    trades,
    equity_curve,
    result,          \* None, or Some(the returned BacktestResult)
    error,           \* "None", or the message of the raised exception
    \* ---- generate_current_signals ----
    gsr_analysis,    \* what get_current_gsr_analysis returned: None for {}
    regime,          \* what get_current_regime returned: None or Some(type)
    sig_pc,          \* "idle", "ready", "returned"
    signals,         \* the returned list of Signal
    \* ---- calculate_position_size called on its own ----
    ps_calls,        \* log of the calls made: <<strength, returned size>>
    \* ---- compute_all_metrics ----
    assets,          \* symbols of the rows of table assets
    prices,          \* rows of table prices: [symbol, timestamp, close]
    macro_series,    \* None, or Some(rows of macro_values of series DGS10)
    start_date,      \* now - days_back: older prices are not fetched
    derived_metrics, \* names of the committed rows of table derived_metrics
    stored_values,   \* committed rows of table metric_values, in id order
    run,             \* per compute_all_metrics call: position, locals, stats
    \* ---- optimize_parameters ----
    param_ranges,    \* the dict passed in: key -> list of values
    opt_pc,          \* "idle", "next", "running", "returned"
    combination,     \* position of the four nested loops, as one index
    all_results,
    best_result,     \* None, or Some(BacktestResult)
    best_params,     \* None, or Some(params)
    \* ---- scheduler ----
    settings,        \* ingestion_schedule_enabled, ingestion_daily_hour/minute
    jobs,            \* job id -> trigger and next_run_time, once started
    clock,           \* the scheduler's clock, in minutes since 00:00 of day 0
    fired,           \* log of the job runs: [job, day, minute]
    \* ---- alerts ----
    alerts,          \* table alerts: id -> [status, triggered_at, dismissed_at]
    checker,         \* per worker process: position and locals of check_alerts
    notifications    \* log of send_alert_notifications calls: alert ids

bt_vars == <<metric_values, gsr_metric, config, pc, gsr_values, i, gold_oz,
             silver_oz, last_action, trades, equity_curve, result, error>>
sig_vars == <<gsr_analysis, regime, sig_pc, signals, ps_calls>>
met_vars == <<assets, prices, macro_series, start_date, derived_metrics,
              stored_values, run>>
opt_vars == <<param_ranges, opt_pc, combination, all_results, best_result,
              best_params>>
sch_vars == <<settings, jobs, clock, fired>>
al_vars == <<alerts, checker, notifications>>
rest_vars == <<opt_vars, sch_vars, al_vars>>
vars == <<metric_values, gsr_metric, config, pc, gsr_values, i, gold_oz,
          silver_oz, last_action, trades, equity_curve, result, error,
          gsr_analysis, regime, sig_pc, signals, ps_calls,
          assets, prices, macro_series, start_date, derived_metrics,
          stored_values, run,
          param_ranges, opt_pc, combination, all_results, best_result,
          best_params, settings, jobs, clock, fired,
          alerts, checker, notifications>>

----------------------------------------------------------------------------
(* Bounds *)

\* Timestamps of stored GSR rows range over 1..MaxBars.
MaxBars == 3

----------------------------------------------------------------------------
(* Optional values *)

None == <<>>
Some(x) == <<x>>

----------------------------------------------------------------------------
(* Exact rational arithmetic *)

NaN == <<0, 0>>
PosInf == <<1, 0>>

Abs(x) == IF x < 0 THEN -x ELSE x

RECURSIVE GCD(_, _)
GCD(a, b) == IF b = 0 THEN a ELSE GCD(b, a % b)

\* n/d in lowest terms with a positive denominator (d /= 0).
RNorm(n, d) ==
    LET g == GCD(Abs(n), Abs(d))
        s == IF d < 0 THEN -1 ELSE 1
    IN  <<(s * n) \div g, (s * d) \div g>>

R(n) == <<n, 1>>

\* Sums over the least common denominator and products cancelled crosswise,
\* so that intermediate integers stay as small as the results allow.
RAdd(a, b) ==
    LET g == GCD(a[2], b[2])
    IN  RNorm(a[1] * (b[2] \div g) + b[1] * (a[2] \div g), (a[2] \div g) * b[2])
RNeg(a) == <<-a[1], a[2]>>
RSub(a, b) == RAdd(a, RNeg(b))
RMul(a, b) ==
    LET x == RNorm(a[1], b[2])
        y == RNorm(b[1], a[2])
    IN  RNorm(x[1] * y[1], x[2] * y[2])
RDiv(a, b) == RMul(a, RNorm(b[2], b[1]))
\* Comparisons cross-multiply after cancelling the denominators' common factor.
RCommon(a, b) == IF a[2] = 0 /\ b[2] = 0 THEN 1 ELSE GCD(a[2], b[2])
RLt(a, b) ==
    a[1] * (b[2] \div RCommon(a, b)) < b[1] * (a[2] \div RCommon(a, b))
RLe(a, b) ==
    a[1] * (b[2] \div RCommon(a, b)) <= b[1] * (a[2] \div RCommon(a, b))
RGt(a, b) == RLt(b, a)
RGe(a, b) == RLe(b, a)

----------------------------------------------------------------------------
(* Inputs of run_backtest *)

\* Stored GSR rows by value: the ratio and the two prices read from the
\* row's extra data.  85 and 65 sit exactly on the default thresholds.
BarKinds ==
    { [value |-> 65, gold_price |-> 65,  silver_price |-> 1],
      [value |-> 75, gold_price |-> 75,  silver_price |-> 1],
      [value |-> 85, gold_price |-> 85,  silver_price |-> 1],
      [value |-> 90, gold_price |-> 180, silver_price |-> 2] }

Timestamps == 1..MaxBars

\* A database content: at most one GSR row per timestamp.
MetricValueSets ==
    { { [timestamp |-> t, value |-> f[t].value, gold_price |-> f[t].gold_price,
         silver_price |-> f[t].silver_price] : t \in D }
      : f \in [Timestamps -> BarKinds], D \in SUBSET Timestamps }

\* <<gsr_high_threshold, gsr_low_threshold>>: the defaults, a swapped pair
\* and an equal pair.
Thresholds == { <<85, 65>>, <<65, 85>>, <<75, 75>> }
PositionSizes == { 0, 50, 100, 150 }
TransactionCosts == { <<0, 1>>, <<1, 2>>, <<1, 1>> }
InitialGold == { 0, 100 }
StartDates == { 1, 2 }
EndDates == { MaxBars - 1, MaxBars }

Configs ==
    [ start_date : StartDates,
      end_date : EndDates,
      initial_gold_oz : { R(g) : g \in InitialGold },
      gsr_high_threshold : { th[1] : th \in Thresholds },
      gsr_low_threshold : { th[2] : th \in Thresholds },
      position_size_pct : { R(p) : p \in PositionSizes },
      transaction_cost_pct : TransactionCosts ]

ValidThresholdPair(cfg) ==
    <<cfg.gsr_high_threshold, cfg.gsr_low_threshold>> \in Thresholds

----------------------------------------------------------------------------
(* run_backtest: helpers *)

\* Mutant: a validation that rejects gsr_low_threshold >= gsr_high_threshold.
ConfigError_InvertedThresholds(cfg) ==
    cfg.gsr_low_threshold >= cfg.gsr_high_threshold

\* BacktestConfig.__init__ stores its arguments and run_backtest reads them
\* without any range check: no configuration is rejected.
ConfigError(cfg) == FALSE

\* select(MetricValue).where(metric_id, timestamp >= start, timestamp <= end)
InRange(rows, cfg) ==
    { v \in rows : v.timestamp >= cfg.start_date /\ v.timestamp <= cfg.end_date }

\* .order_by(MetricValue.timestamp)
RECURSIVE OrderByTimestamp(_)
OrderByTimestamp(rows) ==
    IF rows = {} THEN <<>>
    ELSE LET first == CHOOSE v \in rows :
                         \A w \in rows : v.timestamp <= w.timestamp
         IN  <<first>> \o OrderByTimestamp(rows \ {first})

\* Mutant: the emptiness check is missing.
NoData_Never(vals) == FALSE

\* "if not gsr_values"
NoData(vals) == vals = <<>>

\* total_gold_oz = gold_oz + (silver_oz * silver_price / gold_price)
TotalGoldOz(gold, silver, row) ==
    RAdd(gold, RDiv(RMul(silver, R(row.silver_price)), R(row.gold_price)))

\* Mutant: the high-side trigger without the last_action guard.
HighTrigger_NoDebounce(gsr, cfg, last) == gsr >= cfg.gsr_high_threshold

\* gsr >= config.gsr_high_threshold and last_action != "gold_to_silver"
HighTrigger(gsr, cfg, last) ==
    gsr >= cfg.gsr_high_threshold /\ last /= "gold_to_silver"

\* Mutant: the low-side trigger without the last_action guard.
LowTrigger_NoDebounce(gsr, cfg, last) == gsr <= cfg.gsr_low_threshold

\* gsr <= config.gsr_low_threshold and last_action != "silver_to_gold"
LowTrigger(gsr, cfg, last) ==
    gsr <= cfg.gsr_low_threshold /\ last /= "silver_to_gold"

\* Mutant: the percentage is not divided by 100.
SwapAmount_NoPercent(balance, cfg) == RMul(balance, cfg.position_size_pct)

\* balance * (config.position_size_pct / 100.0)
SwapAmount(balance, cfg) ==
    RMul(balance, RDiv(cfg.position_size_pct, R(100)))

\* Mutant: ">= 0" in place of "> 0".
SwapAllowed_NonNegative(amount) == RGe(amount, R(0))

\* "if swap_amount_gold > 0", "if swap_amount_silver > 0"
SwapAllowed(amount) == RGt(amount, R(0))

\* Mutant: the cost is taken off as a flat amount, not as a fraction.
NetAmount_FlatFee(amount, cfg) == RSub(amount, cfg.transaction_cost_pct)

\* swap_amount * (1 - config.transaction_cost_pct)
NetAmount(amount, cfg) ==
    RMul(amount, RSub(R(1), cfg.transaction_cost_pct))

\* The Trade appended by the gold -> silver branch.
GoldToSilverTrade(row, gold, silver, cfg) ==
    LET swap_amount_gold == SwapAmount(gold, cfg)
        net_amount_gold == NetAmount(swap_amount_gold, cfg)
        silver_received == RDiv(RMul(net_amount_gold, R(row.gold_price)),
                                R(row.silver_price))
    IN  [ date |-> row.timestamp,
          action |-> "gold_to_silver",
          gsr |-> row.value,
          gold_oz_before |-> gold,
          silver_oz_before |-> silver,
          gold_oz_after |-> RSub(gold, swap_amount_gold),
          silver_oz_after |-> RAdd(silver, silver_received),
          cost |-> RMul(swap_amount_gold, cfg.transaction_cost_pct) ]

\* The Trade appended by the silver -> gold branch.
SilverToGoldTrade(row, gold, silver, cfg) ==
    LET swap_amount_silver == SwapAmount(silver, cfg)
        net_amount_silver == NetAmount(swap_amount_silver, cfg)
        gold_received == RDiv(RMul(net_amount_silver, R(row.silver_price)),
                              R(row.gold_price))
    IN  [ date |-> row.timestamp,
          action |-> "silver_to_gold",
          gsr |-> row.value,
          gold_oz_before |-> gold,
          silver_oz_before |-> silver,
          gold_oz_after |-> RAdd(gold, gold_received),
          silver_oz_after |-> RSub(silver, swap_amount_silver),
          cost |-> RMul(RDiv(RMul(swap_amount_silver, R(row.silver_price)),
                             R(row.gold_price)),
                        cfg.transaction_cost_pct) ]

\* Mutant: the point's total leaves the silver holding out.
EquityPoint_GoldOnly(row, gold, silver) ==
    [ date |-> row.timestamp,
      gold_oz |-> gold,
      silver_oz |-> silver,
      total_gold_oz |-> gold,
      gsr |-> row.value ]

\* The point appended to equity_curve at the top of the loop body.
EquityPoint(row, gold, silver) ==
    [ date |-> row.timestamp,
      gold_oz |-> gold,
      silver_oz |-> silver,
      total_gold_oz |-> TotalGoldOz(gold, silver, row),
      gsr |-> row.value ]

\* Mutant: the first row's prices (df.iloc[0]) in place of the last row's.
FinalGoldOz_FirstBar(gold, silver, vals) == TotalGoldOz(gold, silver, vals[1])

\* final_gold_oz = gold_oz + silver_oz * df.iloc[-1].silver_price
\*                                     / df.iloc[-1].gold_price
FinalGoldOz(gold, silver, vals) == TotalGoldOz(gold, silver, vals[Len(vals)])

\* Mutant: any change of the gold balance counts as a win.
IsWinningTrade_AnyChange(trade) == trade.gold_oz_after /= trade.gold_oz_before

\* BacktestResult._is_winning_trade
IsWinningTrade(trade) == RGt(trade.gold_oz_after, trade.gold_oz_before)

RECURSIVE CountWinning(_)
CountWinning(ts) ==
    IF ts = <<>> THEN 0
    ELSE (IF IsWinningTrade(ts[1]) THEN 1 ELSE 0) + CountWinning(Tail(ts))

\* BacktestResult.__init__ (max_drawdown and sharpe_ratio are not modelled).
\* final_gold_oz is a numpy double, so a zero initial_gold_oz gives nan or
\* inf for the percentage instead of raising.
BacktestResult(cfg, final_gold_oz, ts) ==
    [ final_gold_oz |-> final_gold_oz,
      gold_oz_gain |-> RSub(final_gold_oz, cfg.initial_gold_oz),
      gold_oz_gain_pct |->
          IF cfg.initial_gold_oz = R(0)
          THEN (IF final_gold_oz = R(0) THEN NaN ELSE PosInf)
          ELSE RMul(RSub(RDiv(final_gold_oz, cfg.initial_gold_oz), R(1)), R(100)),
      total_swaps |-> Len(ts),
      winning_swaps |-> CountWinning(ts),
      win_rate |-> IF Len(ts) > 0 THEN RNorm(CountWinning(ts), Len(ts)) ELSE R(0) ]

----------------------------------------------------------------------------
(* run_backtest: the state machine *)

\* No compute_all_metrics call is modelled: its tables are left empty.
MetIdle ==
    /\ assets = {}
    /\ prices = {}
    /\ macro_series = None
    /\ start_date = 1
    /\ derived_metrics = {}
    /\ stored_values = <<>>
    /\ run = <<>>

\* No optimize_parameters call is modelled.
OptIdle ==
    /\ param_ranges = <<>>
    /\ opt_pc = "idle"
    /\ combination = 1
    /\ all_results = <<>>
    /\ best_result = None
    /\ best_params = None

\* The scheduler is not started.
SchIdle ==
    /\ settings = [ ingestion_schedule_enabled |-> FALSE,
                    ingestion_daily_hour |-> 20,
                    ingestion_daily_minute |-> 0 ]
    /\ jobs = <<>>
    /\ clock = 0
    /\ fired = <<>>

\* No alert exists and no check_alerts run is modelled.
AlIdle ==
    /\ alerts = <<>>
    /\ checker = <<>>
    /\ notifications = <<>>

RestIdle == OptIdle /\ SchIdle /\ AlIdle

SigIdle ==
    /\ gsr_analysis = None
    /\ regime = None
    /\ sig_pc = "idle"
    /\ signals = <<>>
    /\ ps_calls = <<>>

BtInit ==
    /\ metric_values \in MetricValueSets
    /\ gsr_metric \in BOOLEAN
    /\ (~gsr_metric => metric_values = {})   \* rows reference their metric
    /\ config \in Configs
    /\ ValidThresholdPair(config)
    /\ pc = "start"
    /\ gsr_values = <<>>
    /\ i = 1
    /\ gold_oz = R(0)
    /\ silver_oz = R(0)
    /\ last_action = "None"
    /\ trades = <<>>
    /\ equity_curve = <<>>
    /\ result = None
    /\ error = "None"

Init == BtInit /\ SigIdle /\ MetIdle /\ RestIdle

\* Lines 174-227: look the metric up, fetch the rows of the period, set the
\* positions up.
Fetch ==
    /\ pc = "start"
    /\ LET vals == OrderByTimestamp(InRange(metric_values, config))
       IN  IF ConfigError(config)
           THEN /\ pc' = "error"
                /\ error' = "invalid configuration"
                /\ UNCHANGED <<gsr_values, gold_oz>>
           ELSE IF ~gsr_metric
           THEN /\ pc' = "error"
                /\ error' = "GSR metric not found"
                /\ UNCHANGED <<gsr_values, gold_oz>>
           ELSE IF NoData(vals)
           THEN /\ pc' = "error"
                /\ error' = "No GSR data found for backtest period"
                /\ gsr_values' = vals
                /\ UNCHANGED gold_oz
           ELSE /\ pc' = "loop"
                /\ gsr_values' = vals
                /\ gold_oz' = config.initial_gold_oz
                /\ UNCHANGED error
    /\ UNCHANGED <<metric_values, gsr_metric, config, i, silver_oz, last_action,
                   trades, equity_curve, result>>
    /\ UNCHANGED sig_vars
    /\ UNCHANGED met_vars
    /\ UNCHANGED rest_vars

\* Lines 230-317: one iteration of "for date, row in df.iterrows()".
Step ==
    /\ pc = "loop"
    /\ i <= Len(gsr_values)
    /\ LET row == gsr_values[i]
           gsr == row.value
       IN  /\ equity_curve' = Append(equity_curve, EquityPoint(row, gold_oz, silver_oz))
           /\ IF HighTrigger(gsr, config, last_action)
              THEN IF SwapAllowed(SwapAmount(gold_oz, config))
                   THEN LET t == GoldToSilverTrade(row, gold_oz, silver_oz, config)
                        IN  /\ gold_oz' = t.gold_oz_after
                            /\ silver_oz' = t.silver_oz_after
                            /\ trades' = Append(trades, t)
                            /\ last_action' = "gold_to_silver"
                   ELSE UNCHANGED <<gold_oz, silver_oz, trades, last_action>>
              ELSE IF LowTrigger(gsr, config, last_action)
              THEN IF SwapAllowed(SwapAmount(silver_oz, config))
                   THEN LET t == SilverToGoldTrade(row, gold_oz, silver_oz, config)
                        IN  /\ gold_oz' = t.gold_oz_after
                            /\ silver_oz' = t.silver_oz_after
                            /\ trades' = Append(trades, t)
                            /\ last_action' = "silver_to_gold"
                   ELSE UNCHANGED <<gold_oz, silver_oz, trades, last_action>>
              ELSE UNCHANGED <<gold_oz, silver_oz, trades, last_action>>
    /\ i' = i + 1
    /\ UNCHANGED <<metric_values, gsr_metric, config, pc, gsr_values, result, error>>
    /\ UNCHANGED sig_vars
    /\ UNCHANGED met_vars
    /\ UNCHANGED rest_vars

\* Lines 319-337: final equity and the BacktestResult.
Finish ==
    /\ pc = "loop"
    /\ i > Len(gsr_values)
    /\ IF Len(gsr_values) = 0      \* df.iloc[-1] of an empty frame
       THEN /\ pc' = "error"
            /\ error' = "IndexError"
            /\ UNCHANGED result
       ELSE /\ pc' = "done"
            /\ result' = Some(BacktestResult(config,
                                 FinalGoldOz(gold_oz, silver_oz, gsr_values),
                                 trades))
            /\ UNCHANGED error
    /\ UNCHANGED <<metric_values, gsr_metric, config, gsr_values, i, gold_oz,
                   silver_oz, last_action, trades, equity_curve>>
    /\ UNCHANGED sig_vars
    /\ UNCHANGED met_vars
    /\ UNCHANGED rest_vars

Next == Fetch \/ Step \/ Finish

Spec == Init /\ [][Next]_vars

----------------------------------------------------------------------------
(* Properties of run_backtest *)

Running == pc \in {"loop", "done"}

\* Number of bars the loop has gone through.
Processed == IF Running THEN i - 1 ELSE 0

LowBelowHigh == config.gsr_low_threshold < config.gsr_high_threshold

RECURSIVE CountAction(_, _)
CountAction(ts, a) ==
    IF ts = <<>> THEN 0
    ELSE (IF ts[1].action = a THEN 1 ELSE 0) + CountAction(Tail(ts), a)

\* The first k = Processed bars all have a ratio >= gsr_high_threshold, the
\* run started with a positive gold balance and position_size_pct > 0.
HighRun ==
    /\ Running
    /\ Processed >= 1
    /\ RGt(config.initial_gold_oz, R(0))
    /\ RGt(config.position_size_pct, R(0))
    /\ \A j \in 1..Processed : gsr_values[j].value >= config.gsr_high_threshold

\* C1 as stated: over k >= 1 leading bars with ratio >= gsr_high_threshold,
\* exactly one gold_to_silver trade is produced, whatever the thresholds.
C1_DebounceAnyThresholds ==
    HighRun => CountAction(trades, "gold_to_silver") = 1

\* C1 (amended): when gsr_low_threshold < gsr_high_threshold, k >= 1 leading
\* bars with ratio >= gsr_high_threshold produce exactly one trade, a
\* gold_to_silver swap on the first of them.
C1_Debounce ==
    (HighRun /\ LowBelowHigh) =>
        /\ Len(trades) = 1
        /\ trades[1].action = "gold_to_silver"
        /\ trades[1].date = gsr_values[1].timestamp

C1_Witness ==
    /\ HighRun /\ LowBelowHigh
    /\ pc = "done"
    /\ Processed >= 3
    /\ \E j \in 1..Processed : gsr_values[j].value = config.gsr_high_threshold
    /\ Len(trades) = 1

\* C2: with gsr_low_threshold < gsr_high_threshold, any two consecutive
\* trades of the trade log have opposite directions.
C2_TradesAlternate ==
    LowBelowHigh =>
        \A j \in 1..(Len(trades) - 1) : trades[j].action /= trades[j + 1].action

C2_Witness ==
    /\ LowBelowHigh
    /\ Len(trades) >= 3
    /\ trades[1].action = "gold_to_silver"
    /\ trades[2].action = "silver_to_gold"
    /\ trades[3].action = "gold_to_silver"

\* position_size_pct outside (0,100] or transaction_cost_pct outside [0,1)
InvalidConfig(cfg) ==
    \/ RLe(cfg.position_size_pct, R(0))
    \/ RGt(cfg.position_size_pct, R(100))
    \/ RLt(cfg.transaction_cost_pct, R(0))
    \/ RGe(cfg.transaction_cost_pct, R(1))

\* C3: a configuration with position_size_pct outside (0,100] or
\* transaction_cost_pct outside [0,1) is rejected with an
\* invalid-configuration error before any bar is read or replayed: no trade
\* and no equity point is ever produced for it.
C3_BadConfigRejected ==
    InvalidConfig(config) =>
        /\ pc \in {"start", "error"}
        /\ (pc = "error" => error = "invalid configuration")
        /\ gsr_values = <<>>
        /\ trades = <<>>
        /\ equity_curve = <<>>

\* The bar about to be replayed fires a trigger whose to-be-swapped amount
\* is zero or negative.
TriggerWithoutAmount ==
    /\ pc = "loop"
    /\ i <= Len(gsr_values)
    /\ LET gsr == gsr_values[i].value
           high == gsr >= config.gsr_high_threshold
                   /\ last_action /= "gold_to_silver"
           low == gsr <= config.gsr_low_threshold
                  /\ last_action /= "silver_to_gold"
           pct == RDiv(config.position_size_pct, R(100))
       IN  \/ high /\ RLe(RMul(gold_oz, pct), R(0))
           \/ ~high /\ low /\ RLe(RMul(silver_oz, pct), R(0))

\* C4: a bar whose trigger fires with a zero or negative to-be-swapped amount
\* appends no Trade and leaves gold_oz, silver_oz and last_action unchanged.
C4_SkippedSwapIsNoOp ==
    [][TriggerWithoutAmount =>
          /\ trades' = trades
          /\ gold_oz' = gold_oz
          /\ silver_oz' = silver_oz
          /\ last_action' = last_action]_vars

\* The first bar fired the low-side trigger with no silver to swap (and a
\* positive position size), and nothing changed.
C4_Witness ==
    /\ Running
    /\ Processed >= 1
    /\ RGt(config.position_size_pct, R(0))
    /\ gsr_values[1].value <= config.gsr_low_threshold
    /\ gsr_values[1].value < config.gsr_high_threshold
    /\ (Processed >= 2 => gsr_values[2].value < config.gsr_high_threshold)
    /\ trades = <<>>
    /\ last_action = "None"
    /\ gold_oz = config.initial_gold_oz
    /\ silver_oz = R(0)

\* Balances held when the bar dated d is reached: those left by the last
\* trade before d, or the initial ones.
HeldAt(d) ==
    LET before == SelectSeq(trades, LAMBDA t : t.date < d)
    IN  IF before = <<>>
        THEN <<config.initial_gold_oz, R(0)>>
        ELSE <<before[Len(before)].gold_oz_after,
               before[Len(before)].silver_oz_after>>

\* Timestamps of the stored rows inside [start_date, end_date].
PeriodTimestamps ==
    { v.timestamp : v \in { w \in metric_values :
                              /\ w.timestamp >= config.start_date
                              /\ w.timestamp <= config.end_date } }

\* C5: the equity curve has exactly one point per replayed bar, in timestamp
\* order, trade or no trade, and each point's total_gold_oz is
\* gold_oz + silver_oz * silver_price / gold_price for the balances held when
\* the bar is reached.
C5_EquityPointPerBar ==
    /\ Len(equity_curve) = Processed
    /\ (pc = "done" =>
            { equity_curve[j].date : j \in 1..Len(equity_curve) } = PeriodTimestamps
            /\ Len(equity_curve) = Cardinality(PeriodTimestamps))
    /\ \A j \in 1..Len(equity_curve) :
         LET pt == equity_curve[j]
             row == gsr_values[j]
         IN  /\ pt.date = row.timestamp
             /\ (j > 1 => equity_curve[j - 1].date < pt.date)
             /\ pt.gold_oz = HeldAt(pt.date)[1]
             /\ pt.silver_oz = HeldAt(pt.date)[2]
             /\ pt.total_gold_oz =
                  RAdd(pt.gold_oz,
                       RDiv(RMul(pt.silver_oz, R(row.silver_price)),
                            R(row.gold_price)))

\* A finished run of three bars with a single trade, whose later points
\* carry silver.
C5_Witness ==
    /\ pc = "done"
    /\ Len(equity_curve) >= 3
    /\ Len(trades) = 1
    /\ trades[1].date = equity_curve[1].date
    /\ RGt(equity_curve[2].silver_oz, R(0))
    /\ equity_curve[2].total_gold_oz /= equity_curve[3].total_gold_oz

LastPoint == equity_curve[Len(equity_curve)]

TradeOnLastBar ==
    /\ trades /= <<>>
    /\ trades[Len(trades)].date = gsr_values[Len(gsr_values)].timestamp

\* C6 as stated: final_gold_oz equals the total_gold_oz of the last
\* equity-curve point, for every input series and config.
C6_FinalEqualsLastPoint ==
    pc = "done" => result[1].final_gold_oz = LastPoint.total_gold_oz

\* C6 (amended): final_gold_oz is the equity formula applied to the last
\* bar's prices and the balances after the last bar's swap; it equals the
\* last equity point's total_gold_oz when no trade executed on the last bar,
\* and is that total minus the trade's cost when one did.
C6_FinalFromLastBar ==
    pc = "done" =>
        LET last == gsr_values[Len(gsr_values)]
            final == result[1].final_gold_oz
        IN  /\ final = RAdd(gold_oz, RDiv(RMul(silver_oz, R(last.silver_price)),
                                          R(last.gold_price)))
            /\ (~TradeOnLastBar => final = LastPoint.total_gold_oz)
            /\ (TradeOnLastBar =>
                    final = RSub(LastPoint.total_gold_oz,
                                 trades[Len(trades)].cost))

\* A finished run holding silver, with no trade on its last bar and prices
\* that moved since the first bar.
C6_Witness ==
    /\ pc = "done"
    /\ ~TradeOnLastBar
    /\ RGt(silver_oz, R(0))
    /\ Len(gsr_values) >= 2
    /\ gsr_values[1].gold_price * gsr_values[Len(gsr_values)].silver_price
         /= gsr_values[Len(gsr_values)].gold_price * gsr_values[1].silver_price
    /\ result[1].final_gold_oz = LastPoint.total_gold_oz

\* C7 as stated: with gsr_low_threshold >= gsr_high_threshold the trade log
\* never contains trades of both directions.
C7_NeverAlternates ==
    ~LowBelowHigh =>
        ~(/\ CountAction(trades, "gold_to_silver") > 0
          /\ CountAction(trades, "silver_to_gold") > 0)

\* C7 (amended): with gsr_low_threshold >= gsr_high_threshold run_backtest
\* raises nothing but the missing-data errors, replays every bar of a
\* non-empty period, and its trade log may hold both directions, consecutive
\* trades always being of opposite directions.
C7_InvertedThresholdsRun ==
    ~LowBelowHigh =>
        /\ (pc = "error" => /\ PeriodTimestamps = {}
                            /\ error \in {"GSR metric not found",
                                          "No GSR data found for backtest period"})
        /\ (pc = "done" => Len(equity_curve) = Cardinality(PeriodTimestamps))
        /\ \A j \in 1..(Len(trades) - 1) :
               trades[j].action /= trades[j + 1].action

C7_Witness ==
    /\ ~LowBelowHigh
    /\ pc = "done"
    /\ CountAction(trades, "gold_to_silver") > 0
    /\ CountAction(trades, "silver_to_gold") > 0

\* C8: with no GSR value in [start_date, end_date] run_backtest raises the
\* no-data error and returns nothing; a returned result never has an empty
\* equity curve.
C8_EmptySeriesFails ==
    /\ (pc /= "start" /\ PeriodTimestamps = {}) =>
           /\ pc = "error"
           /\ error = IF gsr_metric
                      THEN "No GSR data found for backtest period"
                      ELSE "GSR metric not found"
           /\ result = None
           /\ equity_curve = <<>>
           /\ trades = <<>>
    /\ (result /= None => pc = "done" /\ Len(equity_curve) >= 1)

\* Rows are stored, none of them inside the period.
C8_Witness ==
    /\ pc = "error"
    /\ error = "No GSR data found for backtest period"
    /\ metric_values /= {}
    /\ PeriodTimestamps = {}
    /\ result = None

----------------------------------------------------------------------------
(* Signal generation (values in tenths) *)

\* Number of direct calls of calculate_position_size that are logged.
MaxCalls == 2

GsrInputs == { 600, 650, 651, 750, 849, 850, 882, 900 }
ZScoreInputs == { None, Some(-15), Some(-10), Some(0), Some(2), Some(15),
                  Some(20), Some(25) }
PercentileInputs == { None, Some(0), Some(100), Some(200), Some(500),
                      Some(850), Some(900), Some(953) }
RegimeInputs == { None, Some("risk_off_deflation") }
StrengthInputs == { 0, 500, 599, 600, 650, 699, 700, 750, 799, 800, 900, 1000 }

\* The dictionary returned by get_current_gsr_analysis when GSR data exists.
Analyses ==
    [ gsr : GsrInputs, z_score : ZScoreInputs, percentile : PercentileInputs ]

\* Python truthiness of an optional number: "if percentile and ..."
Truthy(opt) == opt /= None /\ opt[1] /= 0

\* "percentile or 0.0"
OrZero(opt) == IF Truthy(opt) THEN opt[1] ELSE 0

Min(a, b) == IF a <= b THEN a ELSE b
Max(a, b) == IF a >= b THEN a ELSE b

\* Mutant: the percentile bonus is left out.
calculate_signal_strength_NoPct(gsr, z_score, percentile, signal_direction) ==
    LET base == 500
        gsr_bonus ==
            IF signal_direction = "high"
            THEN (IF gsr >= 900 THEN 200 ELSE IF gsr >= 850 THEN 100 ELSE 0)
            ELSE (IF gsr <= 600 THEN 200 ELSE IF gsr <= 650 THEN 100 ELSE 0)
        z_bonus ==
            IF z_score = None THEN 0
            ELSE IF signal_direction = "high"
            THEN (IF z_score[1] >= 20 THEN 150
                  ELSE IF z_score[1] >= 15 THEN 100 ELSE 0)
            ELSE (IF z_score[1] <= -15 THEN 150
                  ELSE IF z_score[1] <= -10 THEN 100 ELSE 0)
    IN  Min(1000, Max(0, base + gsr_bonus + z_bonus))

\* calculate_signal_strength
calculate_signal_strength(gsr, z_score, percentile, signal_direction) ==
    LET base == 500
        gsr_bonus ==
            IF signal_direction = "high"
            THEN (IF gsr >= 900 THEN 200 ELSE IF gsr >= 850 THEN 100 ELSE 0)
            ELSE (IF gsr <= 600 THEN 200 ELSE IF gsr <= 650 THEN 100 ELSE 0)
        z_bonus ==
            IF z_score = None THEN 0
            ELSE IF signal_direction = "high"
            THEN (IF z_score[1] >= 20 THEN 150
                  ELSE IF z_score[1] >= 15 THEN 100 ELSE 0)
            ELSE (IF z_score[1] <= -15 THEN 150
                  ELSE IF z_score[1] <= -10 THEN 100 ELSE 0)
        pct_bonus ==
            IF percentile = None THEN 0
            ELSE IF signal_direction = "high"
            THEN (IF percentile[1] >= 950 THEN 150
                  ELSE IF percentile[1] >= 900 THEN 100 ELSE 0)
            ELSE (IF percentile[1] <= 100 THEN 150
                  ELSE IF percentile[1] <= 200 THEN 100 ELSE 0)
    IN  Min(1000, Max(0, base + gsr_bonus + z_bonus + pct_bonus))

\* Mutant: strict comparisons in the steps.
calculate_position_size_Strict(strength, gsr) ==
    IF strength > 800 THEN 200
    ELSE IF strength > 700 THEN 150
    ELSE IF strength > 600 THEN 125
    ELSE 100

\* calculate_position_size (its gsr argument is not used)
calculate_position_size(strength, gsr) ==
    IF strength >= 800 THEN 200
    ELSE IF strength >= 700 THEN 150
    ELSE IF strength >= 600 THEN 125
    ELSE 100

\* Mutant: the high-side test looks at the ratio only.
HighSide_RatioOnly(gsr, percentile) == gsr >= 850

\* if gsr >= 85.0 or (percentile is not None and percentile >= 85.0)
HighSide(gsr, percentile) ==
    gsr >= 850 \/ (percentile /= None /\ percentile[1] >= 850)

\* Mutant: a missing percentile is read as 0 by the low-side test.
LowSide_MissingAsZero(gsr, percentile) ==
    gsr <= 650 \/ OrZero(percentile) <= 200

\* elif gsr <= 65.0 or (percentile is not None and percentile <= 20.0)
LowSide(gsr, percentile) ==
    gsr <= 650 \/ (percentile /= None /\ percentile[1] <= 200)

\* reasoning_parts of the two branches, as the list of conditions named
HighReasoning(gsr, z_score, percentile) ==
    (IF gsr >= 850 THEN <<"gsr_above_85">> ELSE <<>>)
    \o (IF Truthy(percentile) /\ percentile[1] >= 850
        THEN <<"percentile">> ELSE <<>>)
    \o (IF Truthy(z_score) /\ z_score[1] >= 15 THEN <<"z_score">> ELSE <<>>)

LowReasoning(gsr, z_score, percentile) ==
    (IF gsr <= 650 THEN <<"gsr_below_65">> ELSE <<>>)
    \o (IF Truthy(percentile) /\ percentile[1] <= 200
        THEN <<"percentile">> ELSE <<>>)
    \o (IF Truthy(z_score) /\ z_score[1] <= -10 THEN <<"z_score">> ELSE <<>>)

\* The Signal built by a branch of generate_current_signals.
Signal(signal_type, direction, a, regime_type, reasoning) ==
    LET strength == calculate_signal_strength(a.gsr, a.z_score, a.percentile,
                                              direction)
    IN  [ signal_type |-> signal_type,
          strength |-> strength,
          gsr_value |-> a.gsr,
          gsr_percentile |-> OrZero(a.percentile),
          gsr_z_score |-> OrZero(a.z_score),
          macro_regime |-> regime_type,
          position_size |-> calculate_position_size(strength, a.gsr),
          reasoning |-> reasoning ]

\* generate_current_signals: the returned list
generate_current_signals(analysis, reg) ==
    IF analysis = None THEN <<>>        \* "if not gsr_analysis: return signals"
    ELSE LET a == analysis[1]
             regime_type == IF reg /= None THEN reg[1] ELSE "unknown"
         IN  IF HighSide(a.gsr, a.percentile)
             THEN << Signal("swap_gold_to_silver", "high", a, regime_type,
                            HighReasoning(a.gsr, a.z_score, a.percentile)) >>
             ELSE IF LowSide(a.gsr, a.percentile)
             THEN << Signal("swap_silver_to_gold", "low", a, regime_type,
                            LowReasoning(a.gsr, a.z_score, a.percentile)) >>
             ELSE <<>>

BtIdle ==
    /\ metric_values = {}
    /\ gsr_metric = FALSE
    /\ config = [ start_date |-> 1, end_date |-> MaxBars,
                  initial_gold_oz |-> R(100),
                  gsr_high_threshold |-> 85, gsr_low_threshold |-> 65,
                  position_size_pct |-> R(15),
                  transaction_cost_pct |-> <<1, 50>> ]
    /\ pc = "idle"
    /\ gsr_values = <<>>
    /\ i = 1
    /\ gold_oz = R(0)
    /\ silver_oz = R(0)
    /\ last_action = "None"
    /\ trades = <<>>
    /\ equity_curve = <<>>
    /\ result = None
    /\ error = "None"

SigInit ==
    /\ BtIdle
    /\ RestIdle
    /\ MetIdle
    /\ gsr_analysis \in { None } \cup { Some(a) : a \in Analyses }
    /\ regime \in RegimeInputs
    /\ sig_pc = "ready"
    /\ signals = <<>>
    /\ ps_calls = <<>>

\* One call of generate_current_signals.
GenerateCurrentSignals ==
    /\ sig_pc = "ready"
    /\ signals' = generate_current_signals(gsr_analysis, regime)
    /\ sig_pc' = "returned"
    /\ UNCHANGED <<gsr_analysis, regime, ps_calls>>
    /\ UNCHANGED bt_vars
    /\ UNCHANGED met_vars
    /\ UNCHANGED rest_vars

SigNext == GenerateCurrentSignals

SigSpec == SigInit /\ [][SigNext]_vars

PsInit ==
    /\ BtIdle
    /\ RestIdle
    /\ MetIdle
    /\ gsr_analysis = None
    /\ regime = None
    /\ sig_pc = "idle"
    /\ signals = <<>>
    /\ ps_calls = <<>>

\* One direct call of calculate_position_size.
CalculatePositionSize ==
    /\ sig_pc = "idle"
    /\ Len(ps_calls) < MaxCalls
    /\ \E strength \in StrengthInputs, gsr \in GsrInputs :
           ps_calls' = Append(ps_calls,
                              <<strength, calculate_position_size(strength, gsr)>>)
    /\ UNCHANGED <<gsr_analysis, regime, sig_pc, signals>>
    /\ UNCHANGED bt_vars
    /\ UNCHANGED met_vars
    /\ UNCHANGED rest_vars

PsNext == CalculatePositionSize

PsSpec == PsInit /\ [][PsNext]_vars

----------------------------------------------------------------------------
(* Properties of signal generation *)

\* C9: a call returns at most one signal: the high-side signal whenever
\* ratio >= 85 or percentile >= 85 (also when the low-side condition holds
\* too), otherwise the low-side signal whenever ratio <= 65 or
\* percentile <= 20, and no signal when neither holds.
C9_AtMostOneSignal ==
    sig_pc = "returned" =>
        /\ Len(signals) <= 1
        /\ (gsr_analysis = None => signals = <<>>)
        /\ gsr_analysis /= None =>
             LET a == gsr_analysis[1]
                 high == \/ a.gsr >= 850
                         \/ \E p \in 850..1000 : a.percentile = Some(p)
                 low == \/ a.gsr <= 650
                        \/ \E p \in 0..200 : a.percentile = Some(p)
             IN  /\ high => /\ Len(signals) = 1
                            /\ signals[1].signal_type = "swap_gold_to_silver"
                 /\ (~high /\ low) =>
                            /\ Len(signals) = 1
                            /\ signals[1].signal_type = "swap_silver_to_gold"
                 /\ (~high /\ ~low) => signals = <<>>

\* Both triggers hold (ratio <= 65 with percentile = 85) and the high-side
\* signal is the one returned.
C9_Witness ==
    /\ sig_pc = "returned"
    /\ gsr_analysis /= None
    /\ gsr_analysis[1].gsr <= 650
    /\ gsr_analysis[1].percentile = Some(850)
    /\ Len(signals) = 1
    /\ signals[1].signal_type = "swap_gold_to_silver"

\* The step function of the specification, in tenths.
PositionStep(strength) ==
    CASE strength >= 800 -> 200
      [] strength >= 700 /\ strength < 800 -> 150
      [] strength >= 600 /\ strength < 700 -> 125
      [] strength < 600 -> 100

\* C10: calculate_position_size returns 20 for strength >= 80, 15 for >= 70,
\* 12.5 for >= 60 and 10 otherwise; so it returns one of {10, 12.5, 15, 20}
\* and never returns less for a larger strength.
C10_PositionSizeSteps ==
    /\ \A k \in 1..Len(ps_calls) :
         /\ ps_calls[k][2] \in {100, 125, 150, 200}
         /\ ps_calls[k][2] = PositionStep(ps_calls[k][1])
    /\ \A k, m \in 1..Len(ps_calls) :
         ps_calls[k][1] <= ps_calls[m][1] => ps_calls[k][2] <= ps_calls[m][2]

\* Two calls on either side of the 60 step.
C10_Witness ==
    /\ Len(ps_calls) >= 2
    /\ ps_calls[1] = <<599, 100>>
    /\ ps_calls[2] = <<600, 125>>

\* C11: every emitted signal has a strength within 0..100 that is the base
\* 50 plus bonuses; for ratio >= 85, z_score >= 2.0 and percentile >= 95 the
\* call returns one high-side signal with strength >= 80 and position
\* size 20.
C11_StrengthRange ==
    sig_pc = "returned" =>
        /\ \A k \in 1..Len(signals) :
             /\ signals[k].strength >= 500
             /\ signals[k].strength <= 1000
        /\ gsr_analysis /= None =>
             LET a == gsr_analysis[1]
             IN  (/\ a.gsr >= 850
                  /\ \E z \in 20..100 : a.z_score = Some(z)
                  /\ \E p \in 950..1000 : a.percentile = Some(p))
                 => /\ Len(signals) = 1
                    /\ signals[1].signal_type = "swap_gold_to_silver"
                    /\ signals[1].strength >= 800
                    /\ signals[1].position_size = 200

\* The example 88.2 / 2.5 / 95.3: strength 90, position size 20.
C11_Witness ==
    /\ sig_pc = "returned"
    /\ gsr_analysis = Some([ gsr |-> 882, z_score |-> Some(25),
                             percentile |-> Some(953) ])
    /\ Len(signals) = 1
    /\ signals[1].strength = 900
    /\ signals[1].position_size = 200

\* A present value that satisfies no condition of either side: z_score 0.2
\* and percentile 50.
NeutralZScore == Some(2)
NeutralPercentile == Some(500)

\* The analysis with each missing input replaced by the neutral value.
Neutral(a) ==
    [ a EXCEPT !.z_score = IF @ = None THEN NeutralZScore ELSE @,
               !.percentile = IF @ = None THEN NeutralPercentile ELSE @ ]

\* What a caller decides on: which signal, how strong, how large, why.
Outcome(sigs) ==
    [ k \in 1..Len(sigs) |->
        << sigs[k].signal_type, sigs[k].strength, sigs[k].position_size,
           sigs[k].reasoning >> ]

\* C12: with z_score and/or percentile missing the call still returns, and
\* what it returns (signal or none, type, strength, position size,
\* reasoning) is what it returns when no condition on the missing input
\* holds; the missing inputs are reported as 0 in the signal.
C12_MissingInputsSkipped ==
    (sig_pc = "returned" /\ gsr_analysis /= None) =>
        LET a == gsr_analysis[1]
        IN  (a.z_score = None \/ a.percentile = None) =>
              /\ Outcome(signals)
                   = Outcome(generate_current_signals(Some(Neutral(a)), regime))
              /\ \A k \in 1..Len(signals) :
                   /\ a.z_score = None => signals[k].gsr_z_score = 0
                   /\ a.percentile = None => signals[k].gsr_percentile = 0

\* Both inputs missing at ratio 90: a high-side signal of strength 70 whose
\* reasoning names the ratio only.
C12_Witness ==
    /\ sig_pc = "returned"
    /\ gsr_analysis = Some([ gsr |-> 900, z_score |-> None,
                             percentile |-> None ])
    /\ Len(signals) = 1
    /\ signals[1].strength = 700
    /\ signals[1].reasoning = <<"gsr_above_85">>

\* C13: every emitted signal has a non-empty reasoning that names each
\* condition that triggered it, the ratio threshold and/or the percentile,
\* for every ratio, z_score and percentile, percentile = 0 included.
C13_ReasoningNamesTriggers ==
    (sig_pc = "returned" /\ gsr_analysis /= None) =>
        LET a == gsr_analysis[1]
            Names(k, tag) == \E j \in 1..Len(signals[k].reasoning) :
                                signals[k].reasoning[j] = tag
        IN  \A k \in 1..Len(signals) :
              /\ signals[k].reasoning /= <<>>
              /\ signals[k].signal_type = "swap_gold_to_silver" =>
                   /\ a.gsr >= 850 => Names(k, "gsr_above_85")
                   /\ (\E p \in 850..1000 : a.percentile = Some(p))
                        => Names(k, "percentile")
              /\ signals[k].signal_type = "swap_silver_to_gold" =>
                   /\ a.gsr <= 650 => Names(k, "gsr_below_65")
                   /\ (\E p \in 0..200 : a.percentile = Some(p))
                        => Names(k, "percentile")

----------------------------------------------------------------------------
(* compute_all_metrics: tables and inputs *)

\* Prices are ingested at timestamps 1..MaxTs; MaxRuns calls of
\* compute_all_metrics are made.
MaxTs == 3
MaxRuns == 2

PriceTimestamps == 1..MaxTs
Runs == 1..MaxRuns

\* What tables prices holds at one timestamp: the gold close and the silver
\* close, each possibly absent.  60/1, 150/2 and 90/1 give the ratios 60, 75
\* and 90; 60/0 has a zero denominator.
PriceKinds ==
    { [gold |-> Some(60),  silver |-> Some(1)],
      [gold |-> Some(150), silver |-> Some(2)],
      [gold |-> Some(90),  silver |-> Some(1)],
      [gold |-> Some(60),  silver |-> Some(0)],
      [gold |-> Some(60),  silver |-> None],
      [gold |-> None,      silver |-> Some(1)] }

\* Table prices: the ingestion inserts a (asset, timestamp) row only when
\* none exists, so there is at most one close per asset and timestamp.
PriceRows(f) ==
    { [symbol |-> "XAU", timestamp |-> t, close |-> f[t].gold[1]]
        : t \in { u \in PriceTimestamps : f[u].gold /= None } }
    \cup
    { [symbol |-> "XAG", timestamp |-> t, close |-> f[t].silver[1]]
        : t \in { u \in PriceTimestamps : f[u].silver /= None } }

PriceTables == { PriceRows(f) : f \in [PriceTimestamps -> PriceKinds] }

AssetTables == { {"XAU", "XAG"}, {"XAU"}, {"XAG"} }

\* start_date = now - days_back
StartDateInputs == { 1, 2 }

\* Table macro_values of the one macro series present (DGS10): no series, a
\* series without values, a rising one, one that lacks the first date, and
\* a constant one.
MacroInputs ==
    { None,
      Some({}),
      Some({ [date |-> t, value |-> t] : t \in PriceTimestamps }),
      Some({ [date |-> t, value |-> 1 + (t % 2)] : t \in 2..MaxTs }),
      Some({ [date |-> t, value |-> 1] : t \in PriceTimestamps }) }

\* windows of compute_gsr_rolling_stats and of compute_correlations: the
\* calls are modelled with windows that fit into MaxTs points.
RollingWindows == <<2, 3>>
CorrelationWindows == <<2, 3>>

\* DerivedMetric.name, as <<stem, window>>
MetricName(stem, window) == <<stem, window>>
GSR == MetricName("GSR", 0)

----------------------------------------------------------------------------
(* Values of MetricValue.value *)

\* A stored float is [form, n, d]:
\*   "rat"   the fraction n/d (1/0 is inf, 0/0 is nan),
\*   "sqrt"  the square root of n/d            (a standard deviation),
\*   "ssqrt" sign(n) * sqrt(|n|/d)             (a z-score, a correlation).
\* Square roots are kept symbolically so that equality stays exact.
Value(form, q) == [form |-> form, n |-> q[1], d |-> q[2]]
NaNValue == Value("rat", NaN)

\* pd.isna(value)
IsNa(v) == v.n = 0 /\ v.d = 0

\* numpy.isfinite
IsFinite(q) == q[2] /= 0

\* merged["gold"] / merged["silver"] on float64 columns: division by zero
\* gives inf (nan for 0/0) and raises nothing.
FloatDiv(gold, silver) ==
    IF silver /= 0 THEN RNorm(gold, silver)
    ELSE IF gold = 0 THEN NaN
    ELSE PosInf

----------------------------------------------------------------------------
(* The persistence pattern shared by the three computations *)

\* The rows a session sees: the committed ones and its own pending ones.
Visible(r) == stored_values \o run[r].pending

\* Mutant: the existence query never finds a row.
Existing_NeverFound(table, metric, timestamp) == <<>>

\* select(MetricValue).where(metric_id == ..., timestamp == ...)
Existing(table, metric, timestamp) ==
    SelectSeq(table, LAMBDA row : row.metric = metric
                                  /\ row.timestamp = timestamp)

MetricValue(metric, timestamp, value) ==
    [ metric |-> metric, timestamp |-> timestamp, value |-> value ]

\* The "Store values" loops: for each (timestamp, value) of a column, skip
\* nan, skip a timestamp that has a row already, else add a row.
\* scalar_one_or_none raises MultipleResultsFound on two or more rows.
\* Gives the rows added and whether the loop raised.
RECURSIVE StoreColumn(_, _, _)
StoreColumn(table, metric, column) ==
    IF column = <<>> THEN [ added |-> <<>>, raised |-> FALSE ]
    ELSE LET head == column[1]
             found == Existing(table, metric, head.timestamp)
         IN  IF IsNa(head.value)
             THEN StoreColumn(table, metric, Tail(column))
             ELSE IF Len(found) >= 2
             THEN [ added |-> <<>>, raised |-> TRUE ]
             ELSE IF Len(found) = 1
             THEN StoreColumn(table, metric, Tail(column))
             ELSE LET row == MetricValue(metric, head.timestamp, head.value)
                      rest == StoreColumn(Append(table, row), metric,
                                          Tail(column))
                  IN  [ added |-> <<row>> \o rest.added,
                        raised |-> rest.raised ]

\* The rows of one metric, "order_by(MetricValue.timestamp)".
RECURSIVE RowsFrom(_, _, _)
RowsFrom(table, metric, t) ==
    IF t > MaxTs THEN <<>>
    ELSE Existing(table, metric, t) \o RowsFrom(table, metric, t + 1)

OrderedValues(table, metric) == RowsFrom(table, metric, 1)

----------------------------------------------------------------------------
(* compute_all_metrics and compute_gsr *)

\* stats of compute_all_metrics and the locals of compute_gsr.
\* pc: "idle", "gsr_create", "gsr_rows", "rolling", "corr", "done".
IdleRun ==
    [ pc |-> "idle",
      merged |-> <<>>,        \* the merged data frame
      k |-> 1,                \* next row of "for _, row in merged.iterrows()"
      created |-> {},         \* metrics added and flushed, not yet committed
      pending |-> <<>>,       \* MetricValue rows added, not yet committed
      count |-> 0,
      columns |-> <<>>,       \* the data frame columns still to be stored
      m |-> 1,                \* next column of the "Store" loops
      stats |-> [ gsr_computed |-> 0, rolling_stats_computed |-> 0,
                  correlations_computed |-> 0, errors |-> <<>> ] ]

\* select(Price).where(asset_id == ..., timestamp >= start_date)
FetchedPrices(symbol) ==
    { p \in prices : p.symbol = symbol /\ p.timestamp >= start_date }

MergedRow(g, s) ==
    [ timestamp |-> g.timestamp, gold |-> g.close, silver |-> s.close,
      gsr |-> FloatDiv(g.close, s.close) ]

\* Mutant: a left join, whose rows without a silver price carry nan.
Merge_Left(gold, silver) ==
    OrderByTimestamp(
        { MergedRow(pair[1], pair[2]) :
            pair \in { q \in gold \X silver : q[1].timestamp = q[2].timestamp } }
        \cup
        { [ timestamp |-> g.timestamp, gold |-> g.close, silver |-> 0,
            gsr |-> NaN ] :
            g \in { h \in gold : \A x \in silver : x.timestamp /= h.timestamp } })

\* pd.merge(gold_df, silver_df, on="timestamp", how="inner") and
\* merged["gsr"] = merged["gold"] / merged["silver"]
Merge(gold, silver) ==
    OrderByTimestamp(
        { MergedRow(pair[1], pair[2]) :
            pair \in { q \in gold \X silver : q[1].timestamp = q[2].timestamp } })

\* The three "return 0" exits of compute_gsr (lines 92-94, 115-117, 130-132).
ReturnsEarly ==
    \/ "XAU" \notin assets \/ "XAG" \notin assets
    \/ FetchedPrices("XAU") = {} \/ FetchedPrices("XAG") = {}
    \/ Merge(FetchedPrices("XAU"), FetchedPrices("XAG")) = <<>>

\* "except Exception as e": the session is closed without a commit and the
\* message is appended to stats["errors"].
Raise(r, message) ==
    run' = [ run EXCEPT ![r].pc = "done",
                        ![r].pending = <<>>,
                        ![r].created = {},
                        ![r].stats.errors = Append(@, message) ]

\* compute_all_metrics enters compute_gsr: lines 80-141, up to the lookup of
\* the GSR metric.
GsrFetch(r) ==
    /\ run[r].pc = "idle"
    /\ IF ReturnsEarly
       THEN run' = [ run EXCEPT ![r].pc = "rolling",
                                ![r].stats.gsr_computed = 0 ]
       ELSE run' = [ run EXCEPT
                       ![r].merged = Merge(FetchedPrices("XAU"),
                                           FetchedPrices("XAG")),
                       ![r].k = 1,
                       ![r].count = 0,
                       ![r].pc = IF GSR \in derived_metrics
                                 THEN "gsr_rows" ELSE "gsr_create" ]
    /\ UNCHANGED <<assets, prices, macro_series, start_date, derived_metrics,
                   stored_values>>
    /\ UNCHANGED <<bt_vars, sig_vars>>
    /\ UNCHANGED rest_vars

\* Lines 143-150: db.add(gsr_metric); await db.flush().  derived_metrics.name
\* is unique: the INSERT fails when another session has inserted the name.
GsrCreateMetric(r) ==
    /\ run[r].pc = "gsr_create"
    /\ IF \/ GSR \in derived_metrics
          \/ \E o \in Runs \ {r} : GSR \in run[o].created
       THEN Raise(r, "IntegrityError")
       ELSE run' = [ run EXCEPT ![r].created = {GSR}, ![r].pc = "gsr_rows" ]
    /\ UNCHANGED <<assets, prices, macro_series, start_date, derived_metrics,
                   stored_values>>
    /\ UNCHANGED <<bt_vars, sig_vars>>
    /\ UNCHANGED rest_vars

\* Lines 154-178: one round of the loop, from the existence query to db.add.
GsrStoreRow(r) ==
    /\ run[r].pc = "gsr_rows"
    /\ run[r].k <= Len(run[r].merged)
    /\ LET row == run[r].merged[run[r].k]
           found == Existing(Visible(r), GSR, row.timestamp)
       IN  IF Len(found) >= 2
           THEN Raise(r, "MultipleResultsFound")
           ELSE IF Len(found) = 1
           THEN run' = [ run EXCEPT ![r].k = @ + 1 ]
           ELSE run' = [ run EXCEPT
                           ![r].k = @ + 1,
                           ![r].count = @ + 1,
                           ![r].pending =
                               Append(@, MetricValue(GSR, row.timestamp,
                                                     Value("rat", row.gsr))) ]
    /\ UNCHANGED <<assets, prices, macro_series, start_date, derived_metrics,
                   stored_values>>
    /\ UNCHANGED <<bt_vars, sig_vars>>
    /\ UNCHANGED rest_vars

\* Lines 180-182: await db.commit(); return count.
GsrCommit(r) ==
    /\ run[r].pc = "gsr_rows"
    /\ run[r].k > Len(run[r].merged)
    /\ stored_values' = stored_values \o run[r].pending
    /\ derived_metrics' = derived_metrics \cup run[r].created
    /\ run' = [ run EXCEPT ![r].pending = <<>>,
                           ![r].created = {},
                           ![r].stats.gsr_computed = run[r].count,
                           ![r].pc = "rolling" ]
    /\ UNCHANGED <<assets, prices, macro_series, start_date>>
    /\ UNCHANGED <<bt_vars, sig_vars>>
    /\ UNCHANGED rest_vars

----------------------------------------------------------------------------
(* compute_gsr_rolling_stats *)

RECURSIVE RSum(_)
RSum(qs) == IF qs = <<>> THEN R(0) ELSE RAdd(qs[1], RSum(Tail(qs)))

RSquare(q) == RMul(q, q)
Sign(n) == IF n > 0 THEN 1 ELSE IF n < 0 THEN -1 ELSE 0

\* The window of rolling(window) that ends at row j (min_periods = window).
\* The rolling functions read inf as nan, so a window holding a value
\* that is not finite has fewer than min_periods observations.
HasWindow(xs, j, w) ==
    /\ j >= w
    /\ \A m \in (j - w + 1)..j : IsFinite(xs[m])

Window(xs, j, w) == SubSeq(xs, j - w + 1, j)

\* .mean()
Mean(win) == RDiv(RSum(win), R(Len(win)))

\* The square of .std(): the sample variance (ddof = 1), w >= 2.
Variance(win) ==
    LET mean == Mean(win)
    IN  RDiv(RSum([ m \in 1..Len(win) |-> RSquare(RSub(win[m], mean)) ]),
             R(Len(win) - 1))

\* Mutant: a window without spread gives a z-score of 0.
ZScore_ZeroWhenFlat(x, mean, variance) ==
    LET diff == RSub(x, mean)
    IN  IF variance[1] = 0 THEN Value("rat", R(0))
        ELSE Value("ssqrt", RMul(R(Sign(diff[1])),
                                 RDiv(RSquare(diff), variance)))

\* (df["gsr"] - ma) / std, held as the signed square diff^2 / variance;
\* a float division by a zero std gives nan for 0/0 and +-inf otherwise.
ZScore(x, mean, variance) ==
    LET diff == RSub(x, mean)
    IN  IF variance[1] = 0
        THEN (IF diff[1] = 0 THEN NaNValue
              ELSE Value("rat", <<Sign(diff[1]), 0>>))
        ELSE Value("ssqrt", RMul(R(Sign(diff[1])),
                                 RDiv(RSquare(diff), variance)))

\* Mutant: the share of the window strictly below the last value.
PercentileRank_StrictlyLess(win) ==
    LET w == Len(win)
        less == Cardinality({ m \in 1..w : RLt(win[m], win[w]) })
    IN  RNorm(100 * less, w)

\* pd.Series(x).rank(pct=True).iloc[-1] * 100: the average rank of the last
\* value among the window, over the window length.
PercentileRank(win) ==
    LET w == Len(win)
        last == win[w]
        less == Cardinality({ m \in 1..w : RLt(win[m], last) })
        equal == Cardinality({ m \in 1..w : win[m] = last })
    IN  RNorm(100 * (2 * less + equal + 1), 2 * w)

RollingStems == <<"gsr_ma", "gsr_std", "gsr_zscore", "gsr_percentile">>

\* One cell of df[metric_name].
RollingCell(stem, xs, j, w) ==
    IF ~HasWindow(xs, j, w) THEN NaNValue
    ELSE LET win == Window(xs, j, w)
         IN  CASE stem = "gsr_ma" -> Value("rat", Mean(win))
               [] stem = "gsr_std" -> Value("sqrt", Variance(win))
               [] stem = "gsr_zscore" ->
                      ZScore(xs[j], Mean(win), Variance(win))
               [] stem = "gsr_percentile" -> Value("rat", PercentileRank(win))

\* df[metric_name].items() for the GSR rows given.
RollingColumn(stem, rows, w) ==
    LET xs == [ j \in 1..Len(rows) |-> <<rows[j].value.n, rows[j].value.d>> ]
    IN  [ j \in 1..Len(rows) |->
            [ timestamp |-> rows[j].timestamp,
              value |-> RollingCell(stem, xs, j, w) ] ]

\* The metrics written by the nested loops of lines 230-255, in order.
RollingMetrics ==
    [ m \in 1..(4 * Len(RollingWindows)) |->
        [ stem |-> RollingStems[((m - 1) % 4) + 1],
          window |-> RollingWindows[((m - 1) \div 4) + 1] ] ]

\* Stores the columns one after the other into the table.
RECURSIVE StoreAll(_, _)
StoreAll(table, columns) ==
    IF columns = <<>> THEN [ added |-> <<>>, raised |-> FALSE ]
    ELSE LET first == StoreColumn(table, columns[1].metric, columns[1].cells)
         IN  IF first.raised THEN [ added |-> <<>>, raised |-> TRUE ]
             ELSE LET rest == StoreAll(table \o first.added, Tail(columns))
                  IN  [ added |-> first.added \o rest.added,
                        raised |-> rest.raised ]

\* The whole of compute_gsr_rolling_stats, commit included.
ComputeGsrRollingStats(r) ==
    /\ run[r].pc = "rolling"
    /\ LET rows == OrderedValues(stored_values, GSR)
           columns ==
               [ m \in 1..Len(RollingMetrics) |->
                   [ metric |-> MetricName(RollingMetrics[m].stem,
                                           RollingMetrics[m].window),
                     cells |-> RollingColumn(RollingMetrics[m].stem, rows,
                                             RollingMetrics[m].window) ] ]
           stored == StoreAll(stored_values, columns)
       IN  IF GSR \notin derived_metrics \/ rows = <<>>
           THEN /\ run' = [ run EXCEPT ![r].pc = "corr",
                                       ![r].stats.rolling_stats_computed = 0 ]
                /\ UNCHANGED <<derived_metrics, stored_values>>
           ELSE IF stored.raised
           THEN /\ Raise(r, "MultipleResultsFound")
                /\ UNCHANGED <<derived_metrics, stored_values>>
           ELSE /\ stored_values' = stored_values \o stored.added
                /\ derived_metrics' =
                       derived_metrics
                       \cup { columns[m].metric : m \in 1..Len(columns) }
                /\ run' = [ run EXCEPT
                              ![r].pc = "corr",
                              ![r].stats.rolling_stats_computed =
                                  Len(stored.added) ]
    /\ UNCHANGED <<assets, prices, macro_series, start_date>>
    /\ UNCHANGED <<bt_vars, sig_vars>>
    /\ UNCHANGED rest_vars

----------------------------------------------------------------------------
(* compute_correlations *)

\* Of the codes in correlate_with only DGS10 may be in table macro_series.
SeriesCode == "corr_gsr_DGS10"

\* gsr_df.join(macro_df, how="inner"): the GSR rows that have a macro value
\* of the same timestamp, in the order of the GSR rows.
RECURSIVE JoinMacro(_, _)
JoinMacro(rows, macro) ==
    IF rows = <<>> THEN <<>>
    ELSE LET hits == { v \in macro : v.date = rows[1].timestamp }
         IN  (IF hits = {} THEN <<>>
              ELSE << [ timestamp |-> rows[1].timestamp,
                        gsr |-> <<rows[1].value.n, rows[1].value.d>>,
                        macro |-> R((CHOOSE v \in hits : TRUE).value) ] >>)
             \o JoinMacro(Tail(rows), macro)

\* Pearson correlation of two windows, held as the signed square
\* cov^2 / (var_x * var_y); nan (0/0) when either window has no spread.
Correlation(xs, ys) ==
    LET mx == Mean(xs)
        my == Mean(ys)
        cov == RSum([ m \in 1..Len(xs) |->
                        RMul(RSub(xs[m], mx), RSub(ys[m], my)) ])
        vx == RSum([ m \in 1..Len(xs) |-> RSquare(RSub(xs[m], mx)) ])
        vy == RSum([ m \in 1..Len(ys) |-> RSquare(RSub(ys[m], my)) ])
    IN  IF vx[1] = 0 \/ vy[1] = 0 THEN NaNValue
        ELSE Value("ssqrt", RMul(R(Sign(cov[1])),
                                 RDiv(RDiv(RSquare(cov), vx), vy)))

\* merged["gsr"].rolling(window).corr(merged[series_code]).items()
CorrelationColumn(merged, w) ==
    LET xs == [ j \in 1..Len(merged) |-> merged[j].gsr ]
        ys == [ j \in 1..Len(merged) |-> merged[j].macro ]
    IN  [ j \in 1..Len(merged) |->
            [ timestamp |-> merged[j].timestamp,
              value |-> IF HasWindow(xs, j, w)
                        THEN Correlation(Window(xs, j, w), Window(ys, j, w))
                        ELSE NaNValue ] ]

\* The whole of compute_correlations, commit included.
ComputeCorrelations(r) ==
    /\ run[r].pc = "corr"
    /\ LET rows == OrderedValues(stored_values, GSR)
           merged == IF macro_series = None THEN <<>>
                     ELSE JoinMacro(rows, macro_series[1])
           columns ==
               IF merged = <<>> THEN <<>>
               ELSE [ m \in 1..Len(CorrelationWindows) |->
                        [ metric |-> MetricName(SeriesCode,
                                                CorrelationWindows[m]),
                          cells |-> CorrelationColumn(merged,
                                                      CorrelationWindows[m]) ] ]
           stored == StoreAll(stored_values, columns)
       IN  IF GSR \notin derived_metrics
           THEN /\ run' = [ run EXCEPT ![r].pc = "done",
                                       ![r].stats.correlations_computed = 0 ]
                /\ UNCHANGED <<derived_metrics, stored_values>>
           ELSE IF stored.raised
           THEN /\ Raise(r, "MultipleResultsFound")
                /\ UNCHANGED <<derived_metrics, stored_values>>
           ELSE /\ stored_values' = stored_values \o stored.added
                /\ derived_metrics' =
                       derived_metrics
                       \cup { columns[m].metric : m \in 1..Len(columns) }
                /\ run' = [ run EXCEPT
                              ![r].pc = "done",
                              ![r].stats.correlations_computed =
                                  Len(stored.added) ]
    /\ UNCHANGED <<assets, prices, macro_series, start_date>>
    /\ UNCHANGED <<bt_vars, sig_vars>>
    /\ UNCHANGED rest_vars

----------------------------------------------------------------------------
(* compute_all_metrics: the state machines *)

\* The ingested tables and the calls not yet made.
MetInputs ==
    /\ BtIdle
    /\ RestIdle
    /\ SigIdle
    /\ assets \in AssetTables
    /\ prices \in PriceTables
    /\ \A p \in prices : p.symbol \in assets     \* prices reference an asset
    /\ start_date \in StartDateInputs
    /\ run = [ r \in Runs |-> IdleRun ]

\* Before the first call: no derived metric is stored yet.
MetInit ==
    /\ MetInputs
    /\ macro_series \in MacroInputs
    /\ derived_metrics = {}
    /\ stored_values = <<>>

\* Calls are made one after the other (the scheduler's job, run after run):
\* call r moves only when the calls before it have returned and no other
\* call is under way.
Turn(r) ==
    /\ \A o \in 1..(r - 1) : run[o].pc = "done"
    /\ \A o \in Runs \ {r} : run[o].pc \in {"idle", "done"}

MetNext ==
    \/ \E r \in Runs : Turn(r) /\ GsrFetch(r)
    \/ \E r \in Runs : Turn(r) /\ GsrCreateMetric(r)
    \/ \E r \in Runs : Turn(r) /\ GsrStoreRow(r)
    \/ \E r \in Runs : Turn(r) /\ GsrCommit(r)
    \/ \E r \in Runs : Turn(r) /\ ComputeGsrRollingStats(r)
    \/ \E r \in Runs : Turn(r) /\ ComputeCorrelations(r)

MetSpec == MetInit /\ [][MetNext]_vars

\* What an earlier call of compute_gsr has stored when the prices up to
\* timestamp u had been ingested.
StoredBefore(u) ==
    LET older(symbol) == { p \in prices : p.symbol = symbol
                                          /\ p.timestamp <= u }
        merged == IF {"XAU", "XAG"} \subseteq assets
                  THEN Merge(older("XAU"), older("XAG")) ELSE <<>>
    IN  [ j \in 1..Len(merged) |->
            MetricValue(GSR, merged[j].timestamp,
                        Value("rat", merged[j].gsr)) ]

\* Prices of later timestamps have been ingested since an earlier call.
OverlapInit ==
    /\ MetInputs
    /\ macro_series = None
    /\ \E u \in 0..(MaxTs - 1) :
         /\ stored_values = StoredBefore(u)
         /\ derived_metrics = IF StoredBefore(u) = <<>> THEN {} ELSE {GSR}

\* Calls that overlap: the scheduled job and POST /compute-metrics, or the
\* schedulers of several workers.  Each call has a session of its own; a
\* call is suspended at each await while the others move.  The part of the
\* calls inside compute_gsr is followed.
OverlapNext ==
    \/ \E r \in Runs : GsrFetch(r)
    \/ \E r \in Runs : GsrCreateMetric(r)
    \/ \E r \in Runs : GsrStoreRow(r)
    \/ \E r \in Runs : GsrCommit(r)

OverlapSpec == OverlapInit /\ [][OverlapNext]_vars

----------------------------------------------------------------------------
(* Properties of compute_gsr *)

\* compute_gsr of call r has returned or raised.
GsrReturned(r) == run[r].pc \in {"rolling", "corr", "done"}

\* The close of an input series at t, if the series has t.
InputAt(symbol, t) ==
    { p.close : p \in { q \in prices : /\ q.symbol = symbol
                                       /\ q.timestamp = t
                                       /\ q.timestamp >= start_date } }

StoredAt(metric, t) ==
    { stored_values[j].value :
        j \in { m \in 1..Len(stored_values) :
                  /\ stored_values[m].metric = metric
                  /\ stored_values[m].timestamp = t } }

\* C14: from an empty GSR series, once compute_gsr has returned the series
\* has the point gold/silver at every timestamp that both fetched price
\* series have (silver /= 0), and no point at a timestamp that only one of
\* them has.
C14_InnerJoin ==
    GsrReturned(1) =>
        \A t \in PriceTimestamps :
            /\ \A g \in InputAt("XAU", t), sv \in InputAt("XAG", t) :
                 sv /= 0 => StoredAt(GSR, t) = { Value("rat", RNorm(g, sv)) }
            /\ (InputAt("XAU", t) = {} \/ InputAt("XAG", t) = {})
                 => StoredAt(GSR, t) = {}

\* A run that stored a point at one timestamp and none at a later timestamp
\* that has a price of one metal only.
C14_Witness ==
    /\ GsrReturned(1)
    /\ \E t, u \in PriceTimestamps :
         /\ t < u
         /\ StoredAt(GSR, t) = { Value("rat", R(75)) }
         /\ InputAt("XAU", u) /= {}
         /\ InputAt("XAG", u) = {}
         /\ StoredAt(GSR, u) = {}

\* C15: a joined timestamp whose silver price is 0 gets no ratio point and
\* the exclusion is reported to the caller, while the other joined
\* timestamps get their points.
C15_ZeroDenominatorExcluded ==
    GsrReturned(1) =>
        \A t \in PriceTimestamps :
            (InputAt("XAU", t) /= {} /\ InputAt("XAG", t) = {0}) =>
                /\ StoredAt(GSR, t) = {}
                /\ run[1].stats.errors /= <<>>

\* C16: compute_gsr returns no normal result when a fetched price series is
\* empty or the join has no row: the caller gets a failure.
C16_InsufficientDataReported ==
    LET joined == { t \in PriceTimestamps :
                      InputAt("XAU", t) /= {} /\ InputAt("XAG", t) /= {} }
    IN  (GsrReturned(1) /\ joined = {}) =>
            /\ run[1].pc = "done"
            /\ run[1].stats.errors /= <<>>

\* No two rows of table metric_values have the same metric and timestamp.
UniqueTimestamps(table) ==
    \A j, m \in 1..Len(table) :
        (table[j].metric = table[m].metric
         /\ table[j].timestamp = table[m].timestamp) => j = m

StoredOf(stem) ==
    { j \in 1..Len(stored_values) : stored_values[j].metric[1] = stem }

\* C17: once a first call has returned, a second call over the same inputs
\* adds no row and changes none, in compute_gsr, compute_gsr_rolling_stats
\* and compute_correlations alike: its three counts are 0 and each
\* (metric, timestamp) still has exactly one row.
C17_RerunAddsNothing ==
    [][ run[1].pc = "done" =>
          /\ stored_values' = stored_values
          /\ derived_metrics' = derived_metrics
          /\ UniqueTimestamps(stored_values')
          /\ run'[2].stats.gsr_computed = 0
          /\ run'[2].stats.rolling_stats_computed = 0
          /\ run'[2].stats.correlations_computed = 0
          /\ run'[2].stats.errors = <<>> ]_vars

\* Both calls have returned; the first stored ratio, rolling and
\* correlation points, the second none.
C17_Witness ==
    /\ run[1].pc = "done"
    /\ run[2].pc = "done"
    /\ run[1].stats.gsr_computed = MaxTs
    /\ run[1].stats.rolling_stats_computed > 0
    /\ run[1].stats.correlations_computed > 0
    /\ run[2].stats.gsr_computed = 0
    /\ StoredOf("GSR") /= {}
    /\ StoredOf("gsr_zscore") /= {}
    /\ StoredOf(SeriesCode) /= {}

\* C18: whatever the interleaving of overlapping compute_all_metrics calls,
\* table metric_values never holds two rows with the same metric and
\* timestamp.
C18_UniqueUnderOverlap == UniqueTimestamps(stored_values)

----------------------------------------------------------------------------
(* Properties of compute_gsr_rolling_stats *)

\* compute_gsr_rolling_stats of call r has returned.
RollingReturned(r) == run[r].pc \in {"corr", "done"}

\* The stored GSR series by position: timestamps and values.
GsrSeries == OrderedValues(stored_values, GSR)
GsrValue(j) == <<GsrSeries[j].value.n, GsrSeries[j].value.d>>

\* Positions i (one-based) that end a trailing window of w finite values.
WindowEnds(w) ==
    { j \in w..Len(GsrSeries) : \A m \in (j - w + 1)..j : GsrValue(m)[2] /= 0 }

InWindow(j, w) == (j - w + 1)..j
LessIn(j, w) == Cardinality({ m \in InWindow(j, w) : RLt(GsrValue(m), GsrValue(j)) })
EqualIn(j, w) == Cardinality({ m \in InWindow(j, w) : GsrValue(m) = GsrValue(j) })

WindowSet == { RollingWindows[m] : m \in 1..Len(RollingWindows) }

Flat(j, w) == \A m \in InWindow(j, w) : GsrValue(m) = GsrValue(j)

\* The current value equals the mean of its window: w * x = sum.
AtMean(j, w) ==
    RMul(R(w), GsrValue(j)) = RSum([ m \in 1..w |-> GsrValue(j - w + m) ])

\* C20: at the end of a window whose std is > 0 and whose mean equals the
\* current value the stored z-score is exactly 0; at the end of a window
\* whose std is 0 no z-score is stored (neither 0 nor an infinity).
C20_ZScoreAtMeanAndFlat ==
    RollingReturned(1) =>
        \A w \in WindowSet : \A j \in WindowEnds(w) :
            LET zs == StoredAt(MetricName("gsr_zscore", w),
                               GsrSeries[j].timestamp)
            IN  /\ (~Flat(j, w) /\ AtMean(j, w))
                     => zs = { Value("ssqrt", R(0)) }
                /\ Flat(j, w) => zs = {}

\* Series 60, 90, 75: the 3-point window ending at 75 has mean 75 and a
\* positive std, and the stored z-score is 0.
C20_Witness ==
    /\ RollingReturned(1)
    /\ Len(GsrSeries) = 3
    /\ GsrValue(1) = R(60) /\ GsrValue(2) = R(90) /\ GsrValue(3) = R(75)
    /\ StoredAt(MetricName("gsr_zscore", 3), GsrSeries[3].timestamp)
           = { Value("ssqrt", R(0)) }

\* The stored points of a rolling statistic of window w at series index j.
RollingAt(stem, w, j) ==
    StoredAt(MetricName(stem, w), GsrSeries[j].timestamp)

\* C21: for every window w no rolling mean, std, z-score or percentile is
\* stored at a series index before the first full window (i < w-1, zero
\* based), and a mean, a std and a percentile are stored at every index from
\* there on.
C21_PointsFromFirstFullWindow ==
    RollingReturned(1) =>
        \A w \in WindowSet : \A j \in 1..Len(GsrSeries) :
            /\ j < w => \A m \in 1..Len(RollingStems) :
                            RollingAt(RollingStems[m], w, j) = {}
            /\ j >= w => /\ RollingAt("gsr_ma", w, j) /= {}
                         /\ RollingAt("gsr_std", w, j) /= {}
                         /\ RollingAt("gsr_percentile", w, j) /= {}

----------------------------------------------------------------------------
(* Properties of the replay's balances and trade log *)

\* position_size_pct in (0,100], transaction_cost_pct in [0,1) (prices are
\* positive in every modelled row).
ValidConfig == ~InvalidConfig(config)

C27_BalancesNonNegative ==
    (ValidConfig /\ RGe(config.initial_gold_oz, R(0))) =>
        /\ RGe(gold_oz, R(0)) /\ RGe(silver_oz, R(0))
        /\ \A j \in 1..Len(trades) :
               /\ RGe(trades[j].gold_oz_before, R(0))
               /\ RGe(trades[j].silver_oz_before, R(0))
               /\ RGe(trades[j].gold_oz_after, R(0))
               /\ RGe(trades[j].silver_oz_after, R(0))
        /\ \A j \in 1..Len(equity_curve) :
               /\ RGe(equity_curve[j].gold_oz, R(0))
               /\ RGe(equity_curve[j].silver_oz, R(0))

\* A full swap of the whole gold balance and back: both balances touch 0.
C27_Witness ==
    /\ ValidConfig
    /\ config.position_size_pct = R(100)
    /\ Len(trades) >= 2
    /\ trades[1].gold_oz_after = R(0)
    /\ trades[2].silver_oz_after = R(0)
    /\ RGt(gold_oz, R(0))

\* The stored row of the bar a trade was executed on.
BarOf(trade) ==
    gsr_values[CHOOSE k \in 1..Len(gsr_values) :
                   gsr_values[k].timestamp = trade.date]

\* The amount a trade swapped away, in gold units at the bar's prices.
SwappedInGold(trade) ==
    IF trade.action = "gold_to_silver"
    THEN RSub(trade.gold_oz_before, trade.gold_oz_after)
    ELSE RDiv(RMul(RSub(trade.silver_oz_before, trade.silver_oz_after),
                   R(BarOf(trade).silver_price)),
              R(BarOf(trade).gold_price))

----------------------------------------------------------------------------
(* optimize_parameters: grid search over run_backtest *)

\* Timestamps of the stored GSR rows in the optimizer runs: two bars allow a
\* swap and the swap back, which is all the grid search needs to tell the
\* combinations apart.
OptTimestamps == { 1, 2 }

OptBarKinds == { b \in BarKinds : b.value \in {65, 85, 90} }

\* Database contents of the optimizer runs: empty, or one row per timestamp.
OptDatabases ==
    { {} } \cup
    { { [timestamp |-> t, value |-> f[t].value, gold_price |-> f[t].gold_price,
         silver_price |-> f[t].silver_price] : t \in OptTimestamps }
      : f \in [OptTimestamps -> OptBarKinds] }

ParamKeys == { "gsr_high", "gsr_low", "position_size", "transaction_cost" }

\* The value lists a caller may pass under each key.
ParamLists ==
    [ gsr_high |-> { <<85>>, <<85, 75>> },
      gsr_low |-> { <<65>>, <<65, 75>> },
      position_size |-> { <<R(50)>>, <<R(100), R(50)>>, <<>> },
      transaction_cost |-> { <<R(0)>>, <<R(0), <<1, 2>>>> } ]

\* The dicts passed as param_ranges: any subset of the keys may be present.
ParamRanges ==
    { [ k \in D |-> f[k] ] :
          f \in [ gsr_high : ParamLists.gsr_high,
                  gsr_low : ParamLists.gsr_low,
                  position_size : ParamLists.position_size,
                  transaction_cost : ParamLists.transaction_cost ],
          D \in SUBSET ParamKeys }

\* param_ranges.get(key, default)
Get(pr, key, default) == IF key \in DOMAIN pr THEN pr[key] ELSE default

HighList(pr) == Get(pr, "gsr_high", <<85>>)
LowList(pr) == Get(pr, "gsr_low", <<65>>)
SizeList(pr) == Get(pr, "position_size", <<R(15)>>)
CostList(pr) == Get(pr, "transaction_cost", <<<<1, 50>>>>)

\* The params dict of the combination at loop indices h, l, p, t.
Params(pr, h, l, p, t) ==
    [ gsr_high |-> HighList(pr)[h],
      gsr_low |-> LowList(pr)[l],
      position_size |-> SizeList(pr)[p],
      transaction_cost |-> CostList(pr)[t] ]

\* Mutant: only the first high threshold is tried.
Combinations_FirstHighOnly(pr) == LET nl == Len(LowList(pr)) np == Len(SizeList(pr)) nt == Len(CostList(pr)) IN [ k \in 1..((IF Len(HighList(pr)) > 0 THEN 1 ELSE 0) * nl * np * nt) |-> Params(pr, 1, (((k - 1) \div (np * nt)) % nl) + 1, (((k - 1) \div nt) % np) + 1, ((k - 1) % nt) + 1) ]

\* The four nested for loops, in the order they visit the combinations: the
\* transaction cost varies fastest, the high threshold slowest.
Combinations(pr) ==
    LET nh == Len(HighList(pr))
        nl == Len(LowList(pr))
        np == Len(SizeList(pr))
        nt == Len(CostList(pr))
    IN  [ k \in 1..(nh * nl * np * nt) |->
            Params(pr, ((k - 1) \div (nl * np * nt)) + 1,
                       (((k - 1) \div (np * nt)) % nl) + 1,
                       (((k - 1) \div nt) % np) + 1,
                       ((k - 1) % nt) + 1) ]

\* BacktestConfig(start_date, end_date, gsr_high_threshold=..., ...):
\* initial_gold_oz keeps its default of 100.0.
BacktestConfig(start, end, params) ==
    [ start_date |-> start,
      end_date |-> end,
      initial_gold_oz |-> R(100),
      gsr_high_threshold |-> params.gsr_high,
      gsr_low_threshold |-> params.gsr_low,
      position_size_pct |-> params.position_size,
      transaction_cost_pct |-> params.transaction_cost ]

\* The dict appended to all_results (sharpe_ratio is not modelled).
ResultEntry(params, res) ==
    [ params |-> params,
      gold_oz_gain_pct |-> res.gold_oz_gain_pct,
      win_rate |-> res.win_rate,
      total_swaps |-> res.total_swaps ]

\* Mutant: ">=" in place of ">".
IsBetter_OrEqual(res, best) == best = None \/ RGe(res.gold_oz_gain_pct, best[1].gold_oz_gain_pct)

\* best_result is None or result.gold_oz_gain_pct > best_result.gold_oz_gain_pct
IsBetter(res, best) ==
    best = None \/ RGt(res.gold_oz_gain_pct, best[1].gold_oz_gain_pct)

\* The call's arguments: the database, start_date and end_date (held in
\* config from the start) and param_ranges.
OptInit ==
    /\ metric_values \in OptDatabases
    /\ gsr_metric \in BOOLEAN
    /\ (~gsr_metric => metric_values = {})
    /\ config = BacktestConfig(1, 2,
                               [ gsr_high |-> 85, gsr_low |-> 65,
                                 position_size |-> R(15),
                                 transaction_cost |-> <<1, 50>> ])
    /\ pc = "idle"
    /\ gsr_values = <<>>
    /\ i = 1
    /\ gold_oz = R(0)
    /\ silver_oz = R(0)
    /\ last_action = "None"
    /\ trades = <<>>
    /\ equity_curve = <<>>
    /\ result = None
    /\ error = "None"
    /\ param_ranges \in ParamRanges
    /\ opt_pc = "next"
    /\ combination = 1
    /\ all_results = <<>>
    /\ best_result = None
    /\ best_params = None
    /\ SigIdle /\ MetIdle /\ SchIdle /\ AlIdle

\* Lines 368-379: the loops step to the next combination, build its config
\* and call run_backtest.
OptBegin ==
    /\ opt_pc = "next"
    /\ combination <= Len(Combinations(param_ranges))
    /\ config' = BacktestConfig(config.start_date, config.end_date,
                                Combinations(param_ranges)[combination])
    /\ pc' = "start"
    /\ gsr_values' = <<>>
    /\ i' = 1
    /\ gold_oz' = R(0)
    /\ silver_oz' = R(0)
    /\ last_action' = "None"
    /\ trades' = <<>>
    /\ equity_curve' = <<>>
    /\ result' = None
    /\ error' = "None"
    /\ opt_pc' = "running"
    /\ UNCHANGED <<metric_values, gsr_metric>>
    /\ UNCHANGED <<param_ranges, combination, all_results, best_result,
                   best_params>>
    /\ UNCHANGED <<sig_vars, met_vars, sch_vars, al_vars>>

\* Lines 381-407: run_backtest returned; the entry is appended and the best
\* result tracked.
OptRecord ==
    /\ opt_pc = "running"
    /\ pc = "done"
    /\ LET params == Combinations(param_ranges)[combination]
       IN  /\ all_results' = Append(all_results, ResultEntry(params, result[1]))
           /\ IF IsBetter(result[1], best_result)
              THEN /\ best_result' = result
                   /\ best_params' = Some(params)
              ELSE UNCHANGED <<best_result, best_params>>
    /\ combination' = combination + 1
    /\ opt_pc' = "next"
    /\ UNCHANGED param_ranges
    /\ UNCHANGED <<bt_vars, sig_vars, met_vars, sch_vars, al_vars>>

\* Lines 409-411: run_backtest raised; the error is logged and the loop
\* continues.
OptSkip ==
    /\ opt_pc = "running"
    /\ pc = "error"
    /\ combination' = combination + 1
    /\ opt_pc' = "next"
    /\ UNCHANGED <<param_ranges, all_results, best_result, best_params>>
    /\ UNCHANGED <<bt_vars, sig_vars, met_vars, sch_vars, al_vars>>

\* Lines 413-417: the loops are exhausted; best_params, best_result and
\* all_results are returned.
OptReturn ==
    /\ opt_pc = "next"
    /\ combination > Len(Combinations(param_ranges))
    /\ opt_pc' = "returned"
    /\ UNCHANGED <<param_ranges, combination, all_results, best_result,
                   best_params>>
    /\ UNCHANGED <<bt_vars, sig_vars, met_vars, sch_vars, al_vars>>

OptNext == OptBegin \/ Fetch \/ Step \/ Finish \/ OptRecord \/ OptSkip \/ OptReturn

OptSpec == OptInit /\ [][OptNext]_vars

----------------------------------------------------------------------------
(* Properties of optimize_parameters *)

\* Every run_backtest call of this optimize_parameters call raises: the GSR
\* metric is missing or has no row in the period.
EveryRunRaises == ~gsr_metric \/ InRange(metric_values, config) = {}

GridSize ==
    Len(HighList(param_ranges)) * Len(LowList(param_ranges))
        * Len(SizeList(param_ranges)) * Len(CostList(param_ranges))

\* C22: when no simulation raises, all_results holds one entry per
\* combination of the Cartesian product of the four value lists, in loop
\* order; with four single-element lists it has length 1 and best_params is
\* that combination.
C22_EveryCombinationOnce ==
    (opt_pc = "returned" /\ ~EveryRunRaises) =>
        /\ Len(all_results) = GridSize
        /\ \A h \in 1..Len(HighList(param_ranges)) :
           \A l \in 1..Len(LowList(param_ranges)) :
           \A p \in 1..Len(SizeList(param_ranges)) :
           \A t \in 1..Len(CostList(param_ranges)) :
               Cardinality({ k \in 1..Len(all_results) :
                   all_results[k].params = Params(param_ranges, h, l, p, t) }) = 1
        /\ GridSize = 1 =>
               best_params = Some(Params(param_ranges, 1, 1, 1, 1))

C22_Witness ==
    /\ opt_pc = "returned" /\ ~EveryRunRaises
    /\ DOMAIN param_ranges = ParamKeys
    /\ Len(all_results) = 16
    /\ all_results[1].params /= all_results[16].params

\* The entries of all_results with the largest gold_oz_gain_pct.
Maxima ==
    { k \in 1..Len(all_results) :
        \A j \in 1..Len(all_results) :
            RGe(all_results[k].gold_oz_gain_pct, all_results[j].gold_oz_gain_pct) }

\* The first of them in evaluation order.
FirstMaximum == CHOOSE k \in Maxima : \A j \in Maxima : k <= j

C24_FailedCombinationsAccounted ==
    opt_pc = "returned" => Len(all_results) = GridSize

----------------------------------------------------------------------------
(* compute_gsr_rolling_stats and compute_correlations, await by await *)

\* The two computations again, followed from one metric to the next so that
\* a failure between two awaits is a step of its own.  One call is followed.
FirstCall == { 1 }

\* The columns compute_gsr_rolling_stats stores, in the order of its loops.
RollingColumns(rows) ==
    [ m \in 1..Len(RollingMetrics) |->
        [ metric |-> MetricName(RollingMetrics[m].stem,
                                RollingMetrics[m].window),
          cells |-> RollingColumn(RollingMetrics[m].stem, rows,
                                  RollingMetrics[m].window) ] ]

\* The columns compute_correlations stores, in the order of its loops.
CorrelationColumns(rows) ==
    LET merged == IF macro_series = None THEN <<>>
                  ELSE JoinMacro(rows, macro_series[1])
    IN  IF merged = <<>> THEN <<>>
        ELSE [ m \in 1..Len(CorrelationWindows) |->
                 [ metric |-> MetricName(SeriesCode, CorrelationWindows[m]),
                   cells |-> CorrelationColumn(merged, CorrelationWindows[m]) ] ]

\* Mutant: every added row is committed at once.
Autocommitted_All(added) == added

\* The added rows that db.add and the flushes make durable before
\* db.commit(): none, the session's transaction stays open.
Autocommitted(added) == <<>>

Storing(r) == run[r].pc \in {"rolling_store", "corr_store"}

\* Lines 195-224: the GSR metric and its values are read.
RollingLoad(r) ==
    /\ run[r].pc = "rolling"
    /\ LET rows == OrderedValues(Visible(r), GSR)
       IN  IF GSR \notin derived_metrics \/ rows = <<>>
           THEN run' = [ run EXCEPT ![r].pc = "corr",
                                    ![r].stats.rolling_stats_computed = 0 ]
           ELSE run' = [ run EXCEPT ![r].pc = "rolling_store",
                                    ![r].columns = RollingColumns(rows),
                                    ![r].m = 1,
                                    ![r].count = 0 ]
    /\ UNCHANGED <<assets, prices, macro_series, start_date, derived_metrics,
                   stored_values>>
    /\ UNCHANGED <<bt_vars, sig_vars>>
    /\ UNCHANGED rest_vars

\* Lines 336-384: the GSR series and the macro series are read and joined.
CorrLoad(r) ==
    /\ run[r].pc = "corr"
    /\ IF GSR \notin derived_metrics
       THEN run' = [ run EXCEPT ![r].pc = "done",
                                ![r].stats.correlations_computed = 0 ]
       ELSE run' = [ run EXCEPT
                       ![r].pc = "corr_store",
                       ![r].columns =
                           CorrelationColumns(OrderedValues(Visible(r), GSR)),
                       ![r].m = 1,
                       ![r].count = 0 ]
    /\ UNCHANGED <<assets, prices, macro_series, start_date, derived_metrics,
                   stored_values>>
    /\ UNCHANGED <<bt_vars, sig_vars>>
    /\ UNCHANGED rest_vars

\* Lines 258-304 and 396-437: one metric's "get or create" and its "Store
\* values" loop.
StoreMetric(r) ==
    /\ Storing(r)
    /\ run[r].m <= Len(run[r].columns)
    /\ LET column == run[r].columns[run[r].m]
           known == column.metric \in derived_metrics \cup run[r].created
           stored == StoreColumn(Visible(r), column.metric, column.cells)
       IN  IF ~known /\ \E o \in Runs \ {r} : column.metric \in run[o].created
           THEN /\ Raise(r, "IntegrityError")
                /\ UNCHANGED stored_values
           ELSE IF stored.raised
           THEN /\ Raise(r, "MultipleResultsFound")
                /\ UNCHANGED stored_values
           ELSE /\ stored_values' = stored_values \o Autocommitted(stored.added)
                /\ run' = [ run EXCEPT
                              ![r].created = @ \cup (IF known THEN {}
                                                     ELSE {column.metric}),
                              ![r].pending =
                                  IF Autocommitted(stored.added) = stored.added
                                  THEN @ ELSE @ \o stored.added,
                              ![r].count = @ + Len(stored.added),
                              ![r].m = @ + 1 ]
    /\ UNCHANGED <<assets, prices, macro_series, start_date, derived_metrics>>
    /\ UNCHANGED <<bt_vars, sig_vars>>
    /\ UNCHANGED rest_vars

\* One of the awaited database calls of the loops, or the commit, raises
\* (the connection is lost, a statement times out).
StoreFails(r) ==
    /\ Storing(r)
    /\ Raise(r, "OperationalError")
    /\ UNCHANGED <<assets, prices, macro_series, start_date, derived_metrics,
                   stored_values>>
    /\ UNCHANGED <<bt_vars, sig_vars>>
    /\ UNCHANGED rest_vars

\* Lines 306-308 and 439-441: await db.commit(); return count.
StoreCommit(r) ==
    /\ Storing(r)
    /\ run[r].m > Len(run[r].columns)
    /\ stored_values' = stored_values \o run[r].pending
    /\ derived_metrics' = derived_metrics \cup run[r].created
    /\ run' = [ run EXCEPT
                  ![r].pending = <<>>,
                  ![r].created = {},
                  ![r].stats.rolling_stats_computed =
                      IF run[r].pc = "rolling_store" THEN run[r].count ELSE @,
                  ![r].stats.correlations_computed =
                      IF run[r].pc = "corr_store" THEN run[r].count ELSE @,
                  ![r].pc = IF run[r].pc = "rolling_store" THEN "corr"
                            ELSE "done" ]
    /\ UNCHANGED <<assets, prices, macro_series, start_date>>
    /\ UNCHANGED <<bt_vars, sig_vars>>
    /\ UNCHANGED rest_vars

\* Both metals are ingested at every timestamp; the derived tables are empty.
PartialInit ==
    /\ MetInit
    /\ assets = {"XAU", "XAG"}
    /\ start_date = 1
    /\ \A t \in PriceTimestamps : InputAt("XAU", t) /= {} /\ InputAt("XAG", t) /= {}

PartialNext ==
    \/ \E r \in FirstCall : GsrFetch(r)
    \/ \E r \in FirstCall : GsrCreateMetric(r)
    \/ \E r \in FirstCall : GsrStoreRow(r)
    \/ \E r \in FirstCall : GsrCommit(r)
    \/ \E r \in FirstCall : RollingLoad(r)
    \/ \E r \in FirstCall : CorrLoad(r)
    \/ \E r \in FirstCall : StoreMetric(r)
    \/ \E r \in FirstCall : StoreFails(r)
    \/ \E r \in FirstCall : StoreCommit(r)

PartialSpec == PartialInit /\ [][PartialNext]_vars

\* The call raised inside the Store loops of the columns it still holds.
FailedStoring(r) ==
    /\ run[r].pc = "done"
    /\ run[r].columns /= <<>>
    /\ run[r].stats.errors /= <<>>

StoredRowsOf(metric) ==
    SelectSeq(stored_values, LAMBDA row : row.metric = metric)

\* C25: when compute_gsr_rolling_stats or compute_correlations of a call on
\* empty derived tables fails between two metrics, none of the metric
\* definitions and none of the points of the failed computation are stored,
\* and the returned stats carry the error; while the loops run nothing of
\* them is stored either.
C25_NoPartialMaterialisation ==
    \A r \in FirstCall :
        /\ (Storing(r) \/ FailedStoring(r)) =>
               \A m \in 1..Len(run[r].columns) :
                   /\ run[r].columns[m].metric \notin derived_metrics
                   /\ StoredRowsOf(run[r].columns[m].metric) = <<>>
        /\ (run[r].pc = "done" /\ run[r].stats.errors /= <<>>) =>
               /\ run[r].pending = <<>>
               /\ run[r].created = {}

\* The correlations failed after a first window's points were added: the
\* rolling statistics stay, nothing of the correlations does.
C25_Witness ==
    /\ FailedStoring(1)
    /\ run[1].m = 2
    /\ run[1].columns[1].metric = MetricName(SeriesCode, 2)
    /\ run[1].count > 0
    /\ run[1].stats.rolling_stats_computed > 0
    /\ run[1].stats.errors = <<"OperationalError">>
    /\ StoredRowsOf(MetricName("gsr_ma", 2)) /= <<>>

----------------------------------------------------------------------------
(* start_scheduler and the cron triggers of its four jobs *)

\* The scheduler's clock is followed over days 1..MaxDays.
MaxDays == 2

MinutesPerDay == 1440

\* Times are minutes since 00:00 of day 0.
DayOf(t) == t \div MinutesPerDay

\* settings.ingestion_daily_hour, settings.ingestion_daily_minute
Hours == 0..23
Minutes == 0..59

JobIds == { "daily_ingestion", "metric_computation", "signal_generation",
            "alert_check" }

\* CronTrigger(hour=..., minute=...): hour None stands for every hour.
CronTrigger(hour, minute) == [ hour |-> hour, minute |-> minute ]

\* The first time after t that the trigger matches.
NextFireTime(trigger, t) ==
    IF trigger.hour = None
    THEN LET candidate == (t - (t % 60)) + trigger.minute
         IN  IF candidate > t THEN candidate ELSE candidate + 60
    ELSE LET candidate == (t - (t % MinutesPerDay))
                          + trigger.hour[1] * 60 + trigger.minute
         IN  IF candidate > t THEN candidate ELSE candidate + MinutesPerDay

\* CronTrigger(hour=settings.ingestion_daily_hour,
\*             minute=(settings.ingestion_daily_minute + offset) % 60)
OffsetTrigger(hour, minute, offset) ==
    CronTrigger(Some(hour), (minute + offset) % 60)

\* The triggers start_scheduler gives to its jobs.
Triggers(cfg) ==
    [ daily_ingestion |->
          CronTrigger(Some(cfg.ingestion_daily_hour), cfg.ingestion_daily_minute),
      metric_computation |->
          OffsetTrigger(cfg.ingestion_daily_hour, cfg.ingestion_daily_minute, 5),
      signal_generation |->
          OffsetTrigger(cfg.ingestion_daily_hour, cfg.ingestion_daily_minute, 10),
      alert_check |-> CronTrigger(None, 0) ]

\* The application starts in the last minute of day 0.
SchInit ==
    /\ settings \in [ ingestion_schedule_enabled : BOOLEAN,
                      ingestion_daily_hour : Hours,
                      ingestion_daily_minute : Minutes ]
    /\ jobs = <<>>
    /\ clock = MinutesPerDay - 1
    /\ fired = <<>>
    /\ BtIdle /\ SigIdle /\ MetIdle /\ OptIdle /\ AlIdle

\* Lines 75-130: nothing is scheduled when the schedule is disabled; else
\* the four jobs are added and scheduler.start() works out their first run.
StartScheduler ==
    /\ jobs = <<>>
    /\ IF ~settings.ingestion_schedule_enabled
       THEN UNCHANGED jobs
       ELSE jobs' = [ j \in JobIds |->
                        [ trigger |-> Triggers(settings)[j],
                          next_run_time |->
                              NextFireTime(Triggers(settings)[j], clock) ] ]
    /\ UNCHANGED <<settings, clock, fired>>
    /\ UNCHANGED <<bt_vars, sig_vars, met_vars, opt_vars, al_vars>>

\* The scheduler wakes at the earliest next_run_time and runs a job that is
\* due then (run_daily_ingestion, run_metric_computation,
\* run_signal_generation or run_alert_check); jobs due at the same time run
\* in either order.
RunJob(j) ==
    /\ jobs /= <<>>
    /\ \A o \in JobIds : jobs[j].next_run_time <= jobs[o].next_run_time
    /\ DayOf(jobs[j].next_run_time) <= MaxDays
    /\ clock' = jobs[j].next_run_time
    /\ fired' = Append(fired, [ job |-> j, time |-> jobs[j].next_run_time ])
    /\ jobs' = [ jobs EXCEPT ![j].next_run_time =
                    NextFireTime(jobs[j].trigger, jobs[j].next_run_time) ]
    /\ UNCHANGED settings
    /\ UNCHANGED <<bt_vars, sig_vars, met_vars, opt_vars, al_vars>>

SchNext == StartScheduler \/ \E j \in JobIds : RunJob(j)

SchSpec == SchInit /\ [][SchNext]_vars

----------------------------------------------------------------------------
(* Properties of the schedule *)

FiredAt(j, t) == \E k \in 1..Len(fired) : fired[k].job = j /\ fired[k].time = t

\* C29: whatever hour and minute are configured, every run of the
\* metric-computation job comes 5 minutes after a run of the daily
\* ingestion job and every run of the signal-generation job 10 minutes
\* after it (and 5 minutes after the metric computation).
C29_MetricsAndSignalsFollowIngestion ==
    \A k \in 1..Len(fired) :
        /\ fired[k].job = "metric_computation" =>
               FiredAt("daily_ingestion", fired[k].time - 5)
        /\ fired[k].job = "signal_generation" =>
               /\ FiredAt("daily_ingestion", fired[k].time - 10)
               /\ FiredAt("metric_computation", fired[k].time - 5)

----------------------------------------------------------------------------
(* check_alerts, check_and_trigger_alert and dismiss_alert *)

\* Alerts have the ids 1..MaxAlerts.
MaxAlerts == 2

\* Worker processes 1..MaxWorkers: each starts a scheduler of its own in
\* lifespan, so each runs check_alerts at the full hour.
MaxWorkers == 2

AlertIds == 1..MaxAlerts
Workers == 1..MaxWorkers

\* AlertType: ratio_band stands for the three types whose condition is read
\* from the stored data; macro_event is never met.
AlertTypes == { "ratio_band", "macro_event" }

\* A row of table alerts as create_alert commits it.  triggered_at and
\* dismissed_at are None or Some of a time.
Alert(type) ==
    [ type |-> type, status |-> "active", triggered_at |-> None,
      dismissed_at |-> None ]

IdleChecker ==
    [ pc |-> "idle",        \* "idle", "loop", "notify", "done"
      selected |-> <<>>,    \* the alerts list of the run
      k |-> 1,              \* next alert of "for alert in alerts"
      stats |-> [ alerts_checked |-> 0, alerts_triggered |-> 0 ] ]

AlInit ==
    /\ alerts \in { [ a \in AlertIds |-> Alert(f[a]) ] :
                        f \in [AlertIds -> AlertTypes] }
    /\ checker = [ w \in Workers |-> IdleChecker ]
    /\ notifications = [ a \in AlertIds |-> 0 ]
    /\ BtIdle /\ SigIdle /\ MetIdle /\ OptIdle /\ SchIdle

\* select(Alert).where(Alert.status == AlertStatus.ACTIVE), in id order.
RECURSIVE ActiveFrom(_, _)
ActiveFrom(table, a) ==
    IF a > MaxAlerts THEN <<>>
    ELSE (IF table[a].status = "active" THEN <<a>> ELSE <<>>)
         \o ActiveFrom(table, a + 1)

\* Lines 41-49 of check_alerts: the active alerts are loaded once.
SelectActive(w) ==
    /\ checker[w].pc = "idle"
    /\ checker' = [ checker EXCEPT
                      ![w].pc = "loop",
                      ![w].selected = ActiveFrom(alerts, 1),
                      ![w].k = 1,
                      ![w].stats.alerts_checked = Len(ActiveFrom(alerts, 1)) ]
    /\ UNCHANGED <<alerts, notifications>>
    /\ UNCHANGED <<bt_vars, sig_vars, met_vars, opt_vars, sch_vars>>

\* check_and_trigger_alert up to its commit (lines 83-105).  met is what the
\* condition check reads from the stored data at that time.  The UPDATE
\* writes status and triggered_at of the row with the alert's id, whatever
\* the row's status has become since it was loaded.
CheckAndTrigger(w, met) ==
    /\ checker[w].pc = "loop"
    /\ checker[w].k <= Len(checker[w].selected)
    /\ LET a == checker[w].selected[checker[w].k]
           triggered == alerts[a].type /= "macro_event" /\ met
       IN  IF triggered
           THEN /\ alerts' = [ alerts EXCEPT ![a].status = "triggered",
                                             ![a].triggered_at = Some("now") ]
                /\ checker' = [ checker EXCEPT ![w].pc = "notify" ]
           ELSE /\ checker' = [ checker EXCEPT ![w].k = @ + 1 ]
                /\ UNCHANGED alerts
    /\ UNCHANGED notifications
    /\ UNCHANGED <<bt_vars, sig_vars, met_vars, opt_vars, sch_vars>>

\* Lines 107-111 and 52-54: send_alert_notifications(alert), then the run
\* counts the alert as triggered.
SendAlertNotifications(w) ==
    /\ checker[w].pc = "notify"
    /\ LET a == checker[w].selected[checker[w].k]
       IN  notifications' = [ notifications EXCEPT ![a] = @ + 1 ]
    /\ checker' = [ checker EXCEPT ![w].pc = "loop",
                                   ![w].k = @ + 1,
                                   ![w].stats.alerts_triggered = @ + 1 ]
    /\ UNCHANGED alerts
    /\ UNCHANGED <<bt_vars, sig_vars, met_vars, opt_vars, sch_vars>>

\* Lines 59-69: the loop is over and stats are returned.
CheckAlertsReturn(w) ==
    /\ checker[w].pc = "loop"
    /\ checker[w].k > Len(checker[w].selected)
    /\ checker' = [ checker EXCEPT ![w].pc = "done" ]
    /\ UNCHANGED <<alerts, notifications>>
    /\ UNCHANGED <<bt_vars, sig_vars, met_vars, opt_vars, sch_vars>>

\* PATCH /{alert_id}/dismiss: the alert is set to DISMISSED whatever its
\* status.
DismissAlert(a) ==
    /\ alerts' = [ alerts EXCEPT ![a].status = "dismissed",
                                 ![a].dismissed_at = Some("now") ]
    /\ UNCHANGED <<checker, notifications>>
    /\ UNCHANGED <<bt_vars, sig_vars, met_vars, opt_vars, sch_vars>>

AlNext ==
    \/ \E w \in Workers : SelectActive(w)
    \/ \E w \in Workers, met \in BOOLEAN : CheckAndTrigger(w, met)
    \/ \E w \in Workers : SendAlertNotifications(w)
    \/ \E w \in Workers : CheckAlertsReturn(w)
    \/ \E a \in AlertIds : DismissAlert(a)

AlSpec == AlInit /\ [][AlNext]_vars

----------------------------------------------------------------------------
(* Properties of the alert life cycle *)

\* C30: under every interleaving of the workers' check_alerts runs with
\* dismiss_alert requests, an alert is notified at most once and an alert
\* that has been dismissed is not TRIGGERED afterwards.
C30_TriggeredOnceNeverAfterDismissal ==
    \A a \in AlertIds :
        /\ notifications[a] <= 1
        /\ alerts[a].status = "triggered" => alerts[a].dismissed_at = None

====
